---------------------------- MODULE Spec2Model ----------------------------
(***************************************************************************)
(* Command plane of the robot: the actuator node (src/rpi/zmq_server.py)   *)
(* with its request loop, its motion worker threads and the pins, and the  *)
(* aggregator node (src/client/command_server.py, src/server/*.py) with    *)
(* its command server thread, its console thread and the request socket    *)
(* the two share.                                                          *)
(*                                                                         *)
(* Texts are TLA+ strings, handled character by character with SubSeq and  *)
(* Len the way the Python string methods handle them.                      *)
(*                                                                         *)
(* Time is counted in hundredths of a second.  A statement that is not a   *)
(* time.sleep or a blocking wait takes no time: time advances only when    *)
(* every live thread is blocked (Advance).                                 *)
(***************************************************************************)
EXTENDS Integers, Sequences, FiniteSets, TLC

(***************************************************************************)
(* Python string methods                                                   *)
(***************************************************************************)

\* the character of s at position i (1-based), as a one-character string
CharAt(s, i) == SubSeq(s, i, i)

\* str.isspace() on one character
IsSpace(c) == c \in {" ", "\t", "\n"}

\* str.lower() on one character
LowerChar(c) ==
  CASE c = "A" -> "a"
    [] c = "B" -> "b"
    [] c = "C" -> "c"
    [] c = "D" -> "d"
    [] c = "E" -> "e"
    [] c = "F" -> "f"
    [] c = "G" -> "g"
    [] c = "H" -> "h"
    [] c = "I" -> "i"
    [] c = "J" -> "j"
    [] c = "K" -> "k"
    [] c = "L" -> "l"
    [] c = "M" -> "m"
    [] c = "N" -> "n"
    [] c = "O" -> "o"
    [] c = "P" -> "p"
    [] c = "Q" -> "q"
    [] c = "R" -> "r"
    [] c = "S" -> "s"
    [] c = "T" -> "t"
    [] c = "U" -> "u"
    [] c = "V" -> "v"
    [] c = "W" -> "w"
    [] c = "X" -> "x"
    [] c = "Y" -> "y"
    [] c = "Z" -> "z"
    [] OTHER   -> c

RECURSIVE Lower(_)
\* str.lower()
Lower(s) == IF Len(s) = 0 THEN "" ELSE LowerChar(CharAt(s, 1)) \o Lower(Tail(s))

RECURSIVE LStrip(_)
\* str.lstrip()
LStrip(s) == IF Len(s) > 0 /\ IsSpace(CharAt(s, 1)) THEN LStrip(Tail(s)) ELSE s

RECURSIVE RStrip(_)
\* str.rstrip()
RStrip(s) ==
  IF Len(s) > 0 /\ IsSpace(CharAt(s, Len(s)))
    THEN RStrip(SubSeq(s, 1, Len(s) - 1))
    ELSE s

\* str.strip()
Strip(s) == RStrip(LStrip(s))

\* str.startswith(p)
StartsWith(s, p) == Len(s) >= Len(p) /\ SubSeq(s, 1, Len(p)) = p

\* s[n:]
DropChars(s, n) == IF n >= Len(s) THEN "" ELSE SubSeq(s, n + 1, Len(s))

\* the position of the first character of s for which Sep holds, 0 if none
RECURSIVE FirstAt(_, _, _)
FirstAt(s, Sep(_), i) ==
  IF i > Len(s) THEN 0
  ELSE IF Sep(CharAt(s, i)) THEN i
  ELSE FirstAt(s, Sep, i + 1)

RECURSIVE SplitWs(_)
\* str.split(): the maximal runs of non-space characters
SplitWs(s) ==
  LET t == LStrip(s)
      k == FirstAt(t, IsSpace, 1)
  IN  IF Len(t) = 0 THEN << >>
      ELSE IF k = 0 THEN << t >>
      ELSE << SubSeq(t, 1, k - 1) >> \o SplitWs(DropChars(t, k))

RECURSIVE SplitOn(_, _)
\* str.split(d) for a one-character d: the fields between the separators
SplitOn(s, d) ==
  LET IsD(c) == c = d
      k == FirstAt(s, IsD, 1)
  IN  IF k = 0 THEN << s >>
      ELSE << SubSeq(s, 1, k - 1) >> \o SplitOn(DropChars(s, k), d)

\* d in s
Contains(s, d) == LET IsD(c) == c = d IN FirstAt(s, IsD, 1) # 0

(***************************************************************************)
(* Command parser (module parser) and pin table (module states) of the     *)
(* actuator                                                                *)
(***************************************************************************)

None == "None"

\* the hold after a completed sequence, PAUSE_AFTER_SEQ_SECONDS, in 1/100 s
PauseAfterSeqCs == 10

\* the duration of a token that names none, DEFAULT_STEP_DURATION, in 1/100 s
DefaultStepCs == 10

StopBits == <<0, 0, 0>>

\* STATES.get(key): the pin pattern of each key, << >> for a key it lacks
STATES(key) ==
  CASE key = "FORWARD"  -> <<0, 0, 1>>
    [] key = "BACKWARD" -> <<0, 1, 0>>
    [] key = "LEFT"     -> <<0, 1, 1>>
    [] key = "RIGHT"    -> <<1, 0, 0>>
    [] key = "LOCK"     -> <<1, 0, 1>>
    [] key = "UNLOCK"   -> <<1, 1, 0>>
    [] key = "STOP"     -> StopBits
    [] OTHER            -> << >>

\* the key of a kind, None for a word that is no kind
KeyOf(word) ==
  CASE word = "forward"  -> "FORWARD"
    [] word = "backward" -> "BACKWARD"
    [] word = "left"     -> "LEFT"
    [] word = "right"    -> "RIGHT"
    [] word = "lock"     -> "LOCK"
    [] word = "unlock"   -> "UNLOCK"
    [] word = "stop"     -> "STOP"
    [] word = "sleep"    -> "SLEEP"
    [] OTHER             -> None

DigitVal(c) ==
  CASE c = "0" -> 0 [] c = "1" -> 1 [] c = "2" -> 2 [] c = "3" -> 3
    [] c = "4" -> 4 [] c = "5" -> 5 [] c = "6" -> 6 [] c = "7" -> 7
    [] c = "8" -> 8 [] c = "9" -> 9 [] OTHER -> -1

RECURSIVE DigitsVal(_, _)
\* the value of a string of digits read after acc, -1 if one is no digit
DigitsVal(s, acc) ==
  IF Len(s) = 0 THEN acc
  ELSE IF DigitVal(CharAt(s, 1)) < 0 THEN -1
  ELSE DigitsVal(Tail(s), 10 * acc + DigitVal(CharAt(s, 1)))

\* a non-negative decimal number of seconds, in 1/100 s (further digits are
\* below the resolution of the clock and are dropped); -1 if s is no number
ParseSeconds(s) ==
  LET parts == SplitOn(s, ".")
      whole == DigitsVal(parts[1], 0)
      frac  == IF Len(parts) = 1 THEN ""
               ELSE SubSeq(parts[2] \o "00", 1, 2)
  IN  IF Len(s) = 0 \/ Len(parts) > 2 \/ Len(parts[1]) = 0 THEN -1
      ELSE IF whole < 0 \/ DigitsVal(frac, 0) < 0 THEN -1
      ELSE IF Len(parts) = 2 /\ DigitsVal(parts[2], 0) < 0 THEN -1
      ELSE 100 * whole + DigitsVal(frac, 0)

\* split_sequence: split on ';', trim each element, drop the empty ones
split_sequence(text) ==
  LET parts == SplitOn(text, ";")
      trimmed == [i \in 1..Len(parts) |-> Strip(parts[i])]
  IN  SelectSeq(trimmed, LAMBDA t : Len(t) > 0)

\* a duration that is absent
NoDur == -1

NoParse == [ok |-> FALSE, key |-> None, dur |-> NoDur]

\* parse_command: the key and the duration (NoDur when absent) of a token,
\* NoParse for a token that does not parse; the colon form kind:value reads
\* as kind value
parse_command(token) ==
  LET colon  == SplitOn(token, ":")
      spaced == IF Len(colon) = 2 THEN colon[1] \o " " \o colon[2] ELSE token
      fields == SplitWs(spaced)
      key    == IF Len(fields) = 0 THEN None ELSE KeyOf(Lower(fields[1]))
  IN  IF Len(fields) = 0 \/ Len(fields) > 2 \/ key = None THEN NoParse
      ELSE IF Len(fields) = 1 THEN [ok |-> TRUE, key |-> key, dur |-> NoDur]
      ELSE IF ParseSeconds(fields[2]) < 0 THEN NoParse
      ELSE [ok |-> TRUE, key |-> key, dur |-> ParseSeconds(fields[2])]

(***************************************************************************)
(* Actuator node: src/rpi/zmq_server.py                                    *)
(***************************************************************************)

\* sleep_interruptible's step, 0.05 s
SleepStepCs == 5

\* the timeout of t.join in stop_motion, 0.5 s
JoinTimeoutCs == 50

\* the requests the actuator receives in one run
MaxRequests == 3

\* motion_thread = None
NoThread == 0

\* the threads start_motion creates, at most one per request
Tids == 1..MaxRequests

\* the threading.Event objects: the first one and one more per stop_motion
EventIds == 0..MaxRequests

\* the stop path (stop_motion in the request loop) as a writer of the pins
MainWriter == 0

Min(S) == CHOOSE m \in S : \A n \in S : m <= n

\* what json.loads makes of a payload that holds no dict
NotADict == [dict |-> FALSE, hasCmd |-> FALSE, cmdIsStr |-> FALSE,
             cmd |-> None, mode |-> None]

\* the keys and string values of a JSON object of one or two members, from
\* the parts of its text between the double quotes; << >> for another text
JsonMembers(p) ==
  IF Len(p) = 5 /\ p[1] = "{" /\ p[3] = ": " /\ p[5] = "}"
    THEN << << p[2], p[4] >> >>
  ELSE IF Len(p) = 9 /\ p[1] = "{" /\ p[3] = ": " /\ p[5] = ", "
            /\ p[7] = ": " /\ p[9] = "}"
    THEN << << p[2], p[4] >>, << p[6], p[8] >> >>
  ELSE << >>

\* "k in obj"
JsonHas(members, k) == \E i \in 1..Len(members) : members[i][1] = k

\* obj.get(k, default)
JsonGet(members, k, default) ==
  IF JsonHas(members, k)
    THEN members[CHOOSE i \in 1..Len(members) : members[i][1] = k][2]
    ELSE default

\* the dict a list of members makes
JsonDict(members) ==
  IF members = << >> THEN NotADict
  ELSE [dict |-> TRUE, hasCmd |-> JsonHas(members, "cmd"),
        cmdIsStr |-> JsonHas(members, "cmd"),
        cmd |-> JsonGet(members, "cmd", None),
        mode |-> JsonGet(members, "mode", "auto")]

\* what json.loads makes of a payload: a dict of one or two keys with
\* string values (with the value of "cmd" and of "mode", "auto" when it has
\* none), the dict {"cmd": 5}, or no dict at all (a text that is no JSON, or
\* JSON that is no object: an object begins with a brace)
JsonLoads(text) ==
  IF ~StartsWith(text, "{") THEN NotADict
  ELSE IF text = "{\"cmd\": 5}"
    THEN [dict |-> TRUE, hasCmd |-> TRUE, cmdIsStr |-> FALSE,
          cmd |-> "5", mode |-> "auto"]
  ELSE JsonDict(JsonMembers(SplitOn(text, "\"")))

\* the payloads a requester sends to the actuator
RpiPayloads ==
  { "stop", " STOP\n", "seq stop", "forward 0.6", "lock",
    "seq forward 0.05; dance 1; right 0.05", "sleep 0.05", "",
    "{\"cmd\": \"stop\"}", "{\"cmd\": 5}",
    "{\"mode\": \"seq\", \"cmd\": \"left 0.05; forward 0.05\"}" }

\* a reply of the actuator: status and the keys of handle_payload's result
RpiReplyOf(ok, mode, cmd, error) ==
  [status |-> IF ok THEN "ok" ELSE "error", ok |-> ok, mode |-> mode,
   cmd |-> cmd, error |-> error]

NoReply == [status |-> None, ok |-> FALSE, mode |-> None, cmd |-> None,
            error |-> None]

\* handle_payload up to its call of stop_motion or start_motion: what it
\* does ("empty", "raise", "stop", "start"), the job and the reply
handle_payload(payload) ==
  LET text      == Strip(payload)
      obj       == JsonLoads(text)
      fromJson  == obj.dict /\ obj.hasCmd
      cmd_str   == IF fromJson THEN obj.cmd ELSE text
      mode      == IF fromJson THEN obj.mode ELSE "auto"
      cmd_lower == Lower(Strip(cmd_str))
      prefixed  == StartsWith(cmd_lower, "seq ")
      is_seq    == IF mode = "seq" THEN TRUE
                   ELSE IF mode = "single" THEN FALSE
                   ELSE prefixed
      cmd_out   == IF mode # "single" /\ prefixed
                     THEN Strip(DropChars(cmd_str, 4))
                     ELSE cmd_str
  IN  IF Len(text) = 0 THEN
        [kind |-> "empty", payload |-> payload, is_sequence |-> FALSE,
         cmd |-> "",
         reply |-> RpiReplyOf(FALSE, None, None, "empty_payload")]
      ELSE IF fromJson /\ ~obj.cmdIsStr THEN
        [kind |-> "raise", payload |-> payload, is_sequence |-> FALSE,
         cmd |-> "",
         reply |-> RpiReplyOf(FALSE, None, None,
                     "'int' object has no attribute 'strip'")]
      ELSE IF cmd_lower \in {"stop", "s", "seq stop"} THEN
        [kind |-> "stop", payload |-> payload, is_sequence |-> FALSE,
         cmd |-> "stop",
         reply |-> RpiReplyOf(TRUE, "stop", "stop", None)]
      ELSE
        [kind |-> "start", payload |-> payload, is_sequence |-> is_seq,
         cmd |-> cmd_out,
         reply |-> RpiReplyOf(TRUE, IF is_seq THEN "seq" ELSE "single",
                              cmd_out, None)]

NoResult == [kind |-> "none", payload |-> "", is_sequence |-> FALSE,
             cmd |-> "", reply |-> NoReply]

(***************************************************************************)
(* Aggregator node: src/server/command_aggregator.py,                      *)
(* src/client/command_server.py, src/server/zmq_client.py,                 *)
(* src/server/seq_mode.py                                                  *)
(***************************************************************************)

\* Python values that reach process_command: a str, or what else a JSON
\* "cmd" may hold; v is the text that str() gives
PyStr(s) == [t |-> "str", v |-> s]

PyInt(digits) == [t |-> "int", v |-> digits]

PyNone == [t |-> "none", v |-> "None"]

\* bool(x)
Truthy(x) ==
  \/ x.t = "str" /\ Len(x.v) > 0
  \/ x.t = "int" /\ x.v # "0"

\* CommandSource.JETSON, CommandSource.MANUAL
JETSON == "jetson"

MANUAL == "manual"

Sources == {JETSON, MANUAL}

\* CommandSource.CONTROLLER, the source of the controller loop
CONTROLLER == "controller"

\* CommandPriority.HIGH, CommandPriority.NORMAL
HIGH == 10

NORMAL == 5

LOW == 1

\* the default capacity of command_history, deque(maxlen=max_history)
max_history == 100

\* self.allowed_commands
allowed_commands ==
  {"forward", "backward", "left", "right", "stop", "lock", "unlock", "sleep"}

\* _validate_command: whether it raises (strip of a value that is no str),
\* whether the command is valid, and the normalized command
Validation(raised, valid, normalized) ==
  [raised |-> raised, valid |-> valid, normalized |-> normalized]

\* _validate_command that does not lower the first field
validate_command_CaseSensitive(command) ==
  IF ~Truthy(command) THEN Validation(FALSE, FALSE, "")
  ELSE IF command.t # "str" THEN Validation(TRUE, FALSE, "")
  ELSE
    LET normalized == Strip(command.v)
        parts      == SplitWs(normalized)
        base_cmd   == parts[1]
    IN  IF StartsWith(normalized, "seq ") THEN
          Validation(FALSE, TRUE, normalized)
        ELSE IF Len(parts) = 0 THEN Validation(FALSE, FALSE, "")
        ELSE IF base_cmd \notin allowed_commands THEN
          IF Contains(base_cmd, ":")
               /\ SplitOn(base_cmd, ":")[1] \in allowed_commands
            THEN Validation(FALSE, TRUE, normalized)
            ELSE Validation(FALSE, FALSE, "")
        ELSE Validation(FALSE, TRUE, normalized)

validate_command(command) ==
  IF ~Truthy(command) THEN Validation(FALSE, FALSE, "")
  ELSE IF command.t # "str" THEN Validation(TRUE, FALSE, "")
  ELSE
    LET normalized == Strip(command.v)
        parts      == SplitWs(normalized)
        base_cmd   == Lower(parts[1])
    IN  IF StartsWith(normalized, "seq ") THEN
          Validation(FALSE, TRUE, normalized)
        ELSE IF Len(parts) = 0 THEN Validation(FALSE, FALSE, "")
        ELSE IF base_cmd \notin allowed_commands THEN
          IF Contains(base_cmd, ":")
               /\ SplitOn(base_cmd, ":")[1] \in allowed_commands
            THEN Validation(FALSE, TRUE, normalized)
            ELSE Validation(FALSE, FALSE, "")
        ELSE Validation(FALSE, TRUE, normalized)

\* a deque that takes the new entry at its left end
DequeAppend_Left(h, e, maxlen) ==
  IF Len(h) >= maxlen THEN << e >> \o SubSeq(h, 1, Len(h) - 1)
                      ELSE << e >> \o h

\* a deque built without maxlen
DequeAppend_NoEvict(h, e, maxlen) == Append(h, e)

\* deque.append under maxlen: the oldest entry goes when the deque is full
DequeAppend(h, e, maxlen) ==
  IF Len(h) >= maxlen THEN Append(Tail(h), e) ELSE Append(h, e)

\* process_command whose except branch does not count the error
process_command_RaiseUncounted(agg, command, source, priority) ==
  LET val     == validate_command(command)
      counted == [agg EXCEPT
                    !.total_commands = agg.total_commands + 1,
                    !.by_source[source] = agg.by_source[source] + 1]
  IN  IF val.raised THEN
        [success |-> FALSE, processed |-> None,
         msg |-> "Processing error: '" \o command.t
                   \o "' object has no attribute 'strip'",
         agg |-> counted]
      ELSE IF ~val.valid THEN
        [success |-> FALSE, processed |-> None,
         msg |-> "Invalid command: " \o command.v,
         agg |-> [counted EXCEPT !.errors = agg.errors + 1]]
      ELSE
        [success |-> TRUE, processed |-> val.normalized,
         msg |-> "Command processed successfully",
         agg |-> [counted EXCEPT
                    !.command_history =
                      DequeAppend(agg.command_history,
                                  [raw |-> command,
                                   processed |-> val.normalized,
                                   source |-> source,
                                   priority |-> priority],
                                  agg.maxlen),
                    !.last_command = val.normalized]]

\* process_command that adds to the history before it looks at the
\* verdict of the validation
process_command_RecordsRejected(agg, command, source, priority) ==
  LET val     == validate_command(command)
      counted == [agg EXCEPT
                    !.total_commands = agg.total_commands + 1,
                    !.by_source[source] = agg.by_source[source] + 1]
  IN  IF val.raised THEN
        [success |-> FALSE, processed |-> None,
         msg |-> "Processing error: '" \o command.t
                   \o "' object has no attribute 'strip'",
         agg |-> [counted EXCEPT !.errors = agg.errors + 1]]
      ELSE IF ~val.valid THEN
        [success |-> FALSE, processed |-> None,
         msg |-> "Invalid command: " \o command.v,
         agg |-> [counted EXCEPT
                    !.errors = agg.errors + 1,
                    !.command_history =
                      DequeAppend(agg.command_history,
                                  [raw |-> command,
                                   processed |-> val.normalized,
                                   source |-> source,
                                   priority |-> priority],
                                  agg.maxlen)]]
      ELSE
        [success |-> TRUE, processed |-> val.normalized,
         msg |-> "Command processed successfully",
         agg |-> [counted EXCEPT
                    !.command_history =
                      DequeAppend(agg.command_history,
                                  [raw |-> command,
                                   processed |-> val.normalized,
                                   source |-> source,
                                   priority |-> priority],
                                  agg.maxlen),
                    !.last_command = val.normalized]]

\* process_command that turns down what comes with the low priority
process_command_RejectsLow(agg, command, source, priority) ==
  LET val     == validate_command(command)
      counted == [agg EXCEPT
                    !.total_commands = agg.total_commands + 1,
                    !.by_source[source] = agg.by_source[source] + 1]
  IN  IF val.raised THEN
        [success |-> FALSE, processed |-> None,
         msg |-> "Processing error: '" \o command.t
                   \o "' object has no attribute 'strip'",
         agg |-> [counted EXCEPT !.errors = agg.errors + 1]]
      ELSE IF ~val.valid \/ priority = LOW THEN
        [success |-> FALSE, processed |-> None,
         msg |-> "Invalid command: " \o command.v,
         agg |-> [counted EXCEPT !.errors = agg.errors + 1]]
      ELSE
        [success |-> TRUE, processed |-> val.normalized,
         msg |-> "Command processed successfully",
         agg |-> [counted EXCEPT
                    !.command_history =
                      DequeAppend(agg.command_history,
                                  [raw |-> command,
                                   processed |-> val.normalized,
                                   source |-> source,
                                   priority |-> priority],
                                  agg.maxlen),
                    !.last_command = val.normalized]]

\* process_command, the whole block under self.lock: the result
\* (success, processed_command, message) and the aggregator after it
process_command(agg, command, source, priority) ==
  LET val     == validate_command(command)
      counted == [agg EXCEPT
                    !.total_commands = agg.total_commands + 1,
                    !.by_source[source] = agg.by_source[source] + 1]
  IN  IF val.raised THEN
        [success |-> FALSE, processed |-> None,
         msg |-> "Processing error: '" \o command.t
                   \o "' object has no attribute 'strip'",
         agg |-> [counted EXCEPT !.errors = agg.errors + 1]]
      ELSE IF ~val.valid THEN
        [success |-> FALSE, processed |-> None,
         msg |-> "Invalid command: " \o command.v,
         agg |-> [counted EXCEPT !.errors = agg.errors + 1]]
      ELSE
        [success |-> TRUE, processed |-> val.normalized,
         msg |-> "Command processed successfully",
         agg |-> [counted EXCEPT
                    !.command_history =
                      DequeAppend(agg.command_history,
                                  [raw |-> command,
                                   processed |-> val.normalized,
                                   source |-> source,
                                   priority |-> priority],
                                  agg.maxlen),
                    !.last_command = val.normalized]]

\* CommandAggregator.__init__(max_history)
CommandAggregator(maxlen) ==
  [total_commands |-> 0, by_source |-> [src \in Sources \cup {CONTROLLER} |-> 0],
   errors |-> 0, command_history |-> << >>, last_command |-> None,
   maxlen |-> maxlen]

\* get_aggregator: the one aggregator of the node, of the default capacity
NewAggregator == CommandAggregator(max_history)

\* clear_history, the block under self.lock
clear_history(agg) == [agg EXCEPT !.command_history = << >>]

\* get_stats, the dictionary built under self.lock (last_command_age, a
\* reading of the clock, is left out)
get_stats(agg) ==
  [total_commands |-> agg.total_commands, by_source |-> agg.by_source,
   errors |-> agg.errors, last_command |-> agg.last_command,
   history_size |-> Len(agg.command_history)]

\* list[-count:] for a count below the length of the list: the last count
\* elements for a positive count, the whole list for 0 (-0 is 0, and
\* list[0:] is the list), the list without its first -count elements for a
\* negative count
SliceFromMinus(list, count) ==
  IF count > 0 THEN SubSeq(list, Len(list) - count + 1, Len(list))
  ELSE IF count = 0 THEN list
  ELSE SubSeq(list, 1 - count, Len(list))

\* get_recent_history(count), the list built under self.lock
get_recent_history(agg, count) ==
  LET history_list == agg.command_history
  IN  IF count < Len(history_list) THEN SliceFromMinus(history_list, count)
      ELSE history_list

VARIABLES
  rpiPc,          \* where the request loop of the actuator is
  rpiRes,         \* handle_payload's decision for the request in hand
  rpiRecvN,       \* requests received
  rpiReplyN,      \* replies sent
  rpiReply,       \* the last reply sent
  rpiLast,        \* the payload of the last command accepted
  motion_thread,  \* the motion job handle: a thread or NoThread
  motion_cancel,  \* the Event motion_cancel names
  evSet,          \* the Events that are set
  smT,            \* stop_motion's local t
  joinLeft,       \* what is left of the timeout of t.join
  workers,        \* the motion worker threads
  pins,           \* the pattern on the pins
  lastWrite,      \* the last write of the pins: its writer and a toggle
  wrote,          \* the writers that have written the pins
  stopped,        \* the last command accepted was a stop, now handled
  stopPrior,      \* the state of the motion job when that stop came
  preempted,      \* the threads that were alive when their job was cancelled
  stopObs         \* what was observable after the stops handled in a row

actVars == << rpiPc, rpiRes, rpiRecvN, rpiReplyN, rpiReply, rpiLast,
              motion_thread,
              motion_cancel, evSet, smT, joinLeft, workers, pins, lastWrite,
              wrote, stopped, stopPrior, preempted, stopObs >>

VARIABLES
  agg,            \* the CommandAggregator: statistics, history, last_command
  srvPc,          \* where the command server thread is
  srvCur,         \* the request the command server has in hand
  srvRecvN,       \* requests the command server has received
  srvReplyN,      \* replies the command server has sent
  srvRep,         \* the REP socket: "ready" to receive, or "must_send"
  prodWire,       \* the frames on their way to the command server
  prodState,      \* the producer: "idle", or "waiting" for its reply
  prodSentN,      \* frames the producer has sent
  prodReply,      \* the last reply the producer received
  conPc,          \* where the console thread is
  conCur,         \* the command the console thread forwards
  conLines,       \* lines the console has read
  reqState,       \* the REQ socket to the actuator: "idle" or "sent"
  wireReq,        \* the requests on their way to the actuator
  wireRep,        \* the replies on their way back from the actuator
  rpiUp,          \* the actuator process runs
  anyFwdFailed,   \* some send_command has caught an exception
  lastCall,       \* the last call of the aggregator: arguments and result
  acceptedLog     \* the intents accepted since the history was last empty

\* the variables of the aggregator node but the aggregator and its calls
netVars == << srvPc, srvCur, srvRecvN, srvReplyN, srvRep, prodWire,
              prodState, prodSentN, prodReply, conPc, conCur, conLines,
              reqState, wireReq, wireRep, rpiUp, anyFwdFailed >>

VARIABLES
  lockHolder,     \* the thread that holds self.lock of the aggregator
  callers,        \* the threads that call the aggregator: call and position
  committed,      \* the aggregator as the last whole operation left it
  acceptedN,      \* the commands the whole operations have accepted
  opsStarted      \* calls of the aggregator begun

lockVars == << lockHolder, callers, committed, acceptedN, opsStarted >>

VARIABLES
  last_heartbeat_ts,  \* the time of the last heartbeat, 0 before the first
  hbNow,          \* time.time() on the aggregator node, in seconds
  hbPc,           \* the heartbeat listener: "recv", or "sleep" after an error
  hbWakeAt,       \* when its time.sleep ends
  hbRecvN,        \* messages the listener has taken from its socket
  hbMsg,          \* the last of them
  ctlPc,          \* where the controller loop is
  ctlAge,         \* the hb_age it has read
  ctlWarned,      \* it has printed the health warning in this turn
  ctlLast,        \* its last press: button, age, verdict, command sent
  ctlPresses      \* presses it has handled

hbVars == << last_heartbeat_ts, hbNow, hbPc, hbWakeAt, hbRecvN, hbMsg >>

ctlVars == << ctlPc, ctlAge, ctlWarned, ctlLast, ctlPresses >>

VARIABLES
  cliPc,          \* where the request client (src/pc_client.py) is
  cliPayload,     \* the payload of the send_command it is in
  cliAttempt,     \* attempt, the variable of the loop of send_command
  cliTimeouts,    \* polls of this send_command that have timed out
  cliSock,        \* sock, the local variable of send_command
  cliSockets,     \* sockets made so far
  cliOpen,        \* the sockets that are open
  cliRegistered,  \* the sockets registered with the poller
  cliReturned,    \* what the calls of send_command have returned
  cliRaised       \* the exception that has ended the client

cliVars == << cliPc, cliPayload, cliAttempt, cliTimeouts, cliSock,
              cliSockets, cliOpen, cliRegistered, cliReturned, cliRaised >>

VARIABLES
  payLog,         \* the command texts handed to handle_payload so far
  payRes          \* what handle_payload made of the last, in each form

payVars == << payLog, payRes >>

VARIABLES
  slp,            \* a thread in sleep_interruptible: its locals
  slpD,           \* the seconds it was called with, in 1/100 s
  slpSlept,       \* what its time.sleep calls have slept in this call
  slpCancel,      \* the cancel signal it was given is set
  slpSaw,         \* it has seen the signal set in this call
  slpCalls        \* calls of sleep_interruptible begun

slpVars == << slp, slpD, slpSlept, slpCancel, slpSaw, slpCalls >>

VARIABLE
  recent          \* the last call of get_recent_history: count and result

VARIABLES
  padNow,         \* time.time() in the controller loop, in 1/100 s
  last_hat,       \* the D-pad position of the turn before
  last_hat_send_time,  \* when the last D-pad command was sent
  last_send_time, \* when the last command of the controller was sent
  last_buttons,   \* the state of the X button in the turn before
  padTurns,       \* turns of the loop made
  padHat,         \* the D-pad intent of the last turn and whether it was sent
  padBtn          \* the button intent of the last turn and whether it was sent

padVars == << padNow, last_hat, last_hat_send_time, last_send_time,
              last_buttons, padTurns, padHat, padBtn >>

VARIABLES
  aggregator_instance,  \* _aggregator_instance: None or an instance
  aggregator_lock,      \* the thread that holds _aggregator_lock
  getters,        \* the threads in get_aggregator: position and result
  instancesMade,  \* CommandAggregator() calls made
  getsStarted     \* calls of get_aggregator begun

sglVars == << aggregator_instance, aggregator_lock, getters, instancesMade,
              getsStarted >>

moreVars == << payVars, slpVars, recent, padVars, sglVars >>

\* the variables of the parts modelled before these
baseVars == << actVars, agg, lastCall, acceptedLog, netVars, lockVars,
               hbVars, ctlVars, cliVars >>

\* the variables of the parts of the system that stand beside the command
\* path
restVars == << lockVars, hbVars, ctlVars, cliVars, moreVars >>

aggVars == << agg, lastCall, acceptedLog, netVars, restVars >>

vars == << actVars, aggVars >>

\* a thread: where it is, the arguments of motion_worker, the locals of
\* execute_sequence, execute_token and sleep_interruptible, and the
\* patterns its tokens have asserted so far
NoWorker == [pc |-> "none", ev |-> 0, seq |-> FALSE, cmd |-> "",
             toks |-> << >>, idx |-> 0, phase |-> "", bits |-> << >>,
             rem |-> 0, dt |-> 0, applied |-> << >>]

\* threading.Thread.is_alive(): started and not yet finished
Alive(t) == t # NoThread /\ workers[t].pc \notin {"none", "new", "dead"}

\* cancel_event.is_set() for the Event worker w was given
Cancelled(w) == workers[w].ev \in evSet

InitActuator ==
  /\ rpiPc = "recv"
  /\ rpiRes = NoResult
  /\ rpiRecvN = 0
  /\ rpiReplyN = 0
  /\ rpiReply = NoReply
  /\ rpiLast = None
  /\ motion_thread = NoThread
  /\ motion_cancel = 0
  /\ evSet = {}
  /\ smT = NoThread
  /\ joinLeft = 0
  /\ workers = [t \in Tids |-> NoWorker]
  /\ pins = StopBits
  /\ lastWrite = [by |-> MainWriter, tog |-> 0]
  /\ wrote = {}
  /\ stopped = FALSE
  /\ stopPrior = None
  /\ preempted = {}
  /\ stopObs = << >>

\* driver.apply_bits(bits) by writer `by` (driver.stop() writes StopBits)
WritePins(by, bits) ==
  /\ pins' = bits
  /\ lastWrite' = [by |-> by, tog |-> 1 - lastWrite.tog]
  /\ wrote' = wrote \cup {by}

NoWrite == UNCHANGED << pins, lastWrite, wrote >>

\* what one can observe of the actuator's motion state
Obs == << pins, motion_thread, {t \in Tids : Alive(t)},
          motion_cancel \in evSet >>

\* the state of the motion job as a command arrives
PriorState ==
  IF motion_thread = NoThread THEN "idle"
  ELSE IF ~Alive(motion_thread) THEN "finished"
  ELSE IF workers[motion_thread].phase = "pause" THEN "pause"
  ELSE "token"

(***************************************************************************)
(* The request loop (main) with handle_payload, stop_motion, start_motion  *)
(***************************************************************************)

\* main: sock.recv() and handle_payload up to stop_motion / start_motion
RpiRecv(payload) ==
  LET res == handle_payload(payload) IN
  /\ rpiPc = "recv"
  /\ rpiRecvN < MaxRequests
  /\ rpiRecvN' = rpiRecvN + 1
  /\ rpiRes' = res
  /\ rpiLast' = IF res.kind \in {"stop", "start"} THEN payload ELSE rpiLast
  /\ rpiPc' = IF res.kind \in {"empty", "raise"} THEN "reply" ELSE "sm_lock"
  /\ stopped' = IF res.kind = "start" THEN FALSE ELSE stopped
  /\ stopPrior' = IF res.kind = "stop" THEN PriorState ELSE stopPrior
  /\ stopObs' = IF res.kind = "start" THEN << >> ELSE stopObs
  /\ NoWrite
  /\ UNCHANGED << rpiReplyN, rpiReply, motion_thread, motion_cancel, evSet,
                  smT, joinLeft, workers, preempted >>

\* stop_motion returns: to handle_payload's return for a stop, to the rest
\* of start_motion otherwise
AfterStopMotion ==
  IF rpiRes.kind = "stop" THEN "reply" ELSE "st_create"

\* a stop has been handled: what is observable now, after the one before
StopHandled(obs) ==
  /\ stopped' = (rpiRes.kind = "stop" \/ stopped)
  /\ stopObs' = IF rpiRes.kind # "stop" THEN stopObs
                ELSE IF stopObs = << >> THEN << obs >>
                ELSE << stopObs[Len(stopObs)], obs >>

\* stop_motion that sets the cancel signal before it looks at the handle
SmLock_SetsCancelFirst ==
  /\ rpiPc = "sm_lock"
  /\ smT' = motion_thread
  /\ evSet' = evSet \cup {motion_cancel}
  /\ IF motion_thread = NoThread
       THEN /\ WritePins(MainWriter, StopBits)
            /\ rpiPc' = AfterStopMotion
            /\ StopHandled(<< StopBits, motion_thread,
                              {t \in Tids : Alive(t)}, TRUE >>)
            /\ UNCHANGED << joinLeft, preempted >>
       ELSE /\ preempted' = IF Alive(motion_thread)
                               THEN preempted \cup {motion_thread}
                               ELSE preempted
            /\ joinLeft' = JoinTimeoutCs
            /\ rpiPc' = "sm_join"
            /\ NoWrite
            /\ UNCHANGED << stopped, stopObs >>
  /\ UNCHANGED << rpiRes, rpiRecvN, rpiReplyN, rpiReply, rpiLast, motion_thread,
                  motion_cancel, workers, stopPrior >>
  /\ UNCHANGED aggVars

\* stop_motion, the first block under motion_lock: without a job write the
\* stop pattern and return, with one set its cancel signal
SmLock ==
  /\ rpiPc = "sm_lock"
  /\ smT' = motion_thread
  /\ IF motion_thread = NoThread
       THEN /\ WritePins(MainWriter, StopBits)
            /\ rpiPc' = AfterStopMotion
            /\ StopHandled(<< StopBits, motion_thread,
                              {t \in Tids : Alive(t)},
                              motion_cancel \in evSet >>)
            /\ UNCHANGED << evSet, joinLeft, preempted >>
       ELSE /\ evSet' = evSet \cup {motion_cancel}
            /\ preempted' = IF Alive(motion_thread)
                               THEN preempted \cup {motion_thread}
                               ELSE preempted
            /\ joinLeft' = JoinTimeoutCs
            /\ rpiPc' = "sm_join"
            /\ NoWrite
            /\ UNCHANGED << stopped, stopObs >>
  /\ UNCHANGED << rpiRes, rpiRecvN, rpiReplyN, rpiReply, rpiLast, motion_thread,
                  motion_cancel, workers, stopPrior >>
  /\ UNCHANGED aggVars

\* stop_motion without its join
JoinDone_NoJoin(t) == TRUE

\* t.join with a timeout shorter than a sleep step of the worker
JoinDone_ShortTimeout(t) == ~Alive(t) \/ joinLeft < JoinTimeoutCs

\* if t.is_alive(): t.join(timeout=0.5) is over: t has finished or the
\* timeout has run out
JoinDone(t) == ~Alive(t) \/ joinLeft = 0

\* stop_motion: the join returns
SmJoin ==
  /\ rpiPc = "sm_join"
  /\ JoinDone(smT)
  /\ rpiPc' = "sm_stop"
  /\ joinLeft' = 0
  /\ NoWrite
  /\ UNCHANGED << rpiRes, rpiRecvN, rpiReplyN, rpiReply, rpiLast, motion_thread,
                  motion_cancel, evSet, smT, workers, stopped, stopPrior,
                  preempted,
                  stopObs >>
  /\ UNCHANGED aggVars

\* stop_motion: driver.stop() after the join
SmStop ==
  /\ rpiPc = "sm_stop"
  /\ WritePins(MainWriter, StopBits)
  /\ rpiPc' = "sm_clear"
  /\ UNCHANGED << rpiRes, rpiRecvN, rpiReplyN, rpiReply, rpiLast, motion_thread,
                  motion_cancel, evSet, smT, joinLeft, workers, stopped,
                  stopPrior, preempted, stopObs >>
  /\ UNCHANGED aggVars

\* stop_motion that keeps the Event it has set
FreshEvent_Reused == motion_cancel

\* the Event threading.Event() makes: one that no thread holds and is clear
FreshEvent ==
  CHOOSE e \in EventIds :
    /\ e # motion_cancel
    /\ e \notin evSet
    /\ \A t \in Tids : workers[t].pc # "none" => workers[t].ev # e

\* stop_motion whose assignment of motion_thread stays local
SmClear_KeepsHandle ==
  /\ rpiPc = "sm_clear"
  /\ motion_thread' = motion_thread
  /\ motion_cancel' = FreshEvent
  /\ smT' = NoThread
  /\ rpiPc' = AfterStopMotion
  /\ StopHandled(<< pins, motion_thread, {t \in Tids : Alive(t)}, FALSE >>)
  /\ NoWrite
  /\ UNCHANGED << rpiRes, rpiRecvN, rpiReplyN, rpiReply, rpiLast, evSet,
                  joinLeft,
                  workers, stopPrior, preempted >>
  /\ UNCHANGED aggVars

\* stop_motion, the second block under motion_lock: clear the handle and
\* make a new cancel signal
SmClear ==
  /\ rpiPc = "sm_clear"
  /\ motion_thread' = NoThread
  /\ motion_cancel' = FreshEvent
  /\ smT' = NoThread
  /\ rpiPc' = AfterStopMotion
  /\ StopHandled(<< pins, NoThread, {t \in Tids : Alive(t)}, FALSE >>)
  /\ NoWrite
  /\ UNCHANGED << rpiRes, rpiRecvN, rpiReplyN, rpiReply, rpiLast, evSet,
                  joinLeft,
                  workers, stopPrior, preempted >>
  /\ UNCHANGED aggVars

\* the worker thread of a job, as threading.Thread(...) makes it
NewWorker(cmd_str, is_sequence, cancel_event) ==
  [pc |-> "new", ev |-> cancel_event, seq |-> is_sequence, cmd |-> cmd_str,
   toks |-> IF is_sequence THEN split_sequence(cmd_str) ELSE << cmd_str >>,
   idx |-> 1, phase |-> "", bits |-> << >>, rem |-> 0, dt |-> 0,
   applied |-> << >>]

\* start_motion, the block under motion_lock: make the thread with the
\* current cancel signal and keep it as the handle
StCreate ==
  /\ rpiPc = "st_create"
  /\ \E t \in Tids :
       /\ workers[t].pc = "none"
       /\ \A u \in Tids : u < t => workers[u].pc # "none"
       /\ workers' = [workers EXCEPT
                        ![t] = NewWorker(rpiRes.cmd, rpiRes.is_sequence,
                                         motion_cancel)]
       /\ motion_thread' = t
  /\ rpiPc' = "st_start"
  /\ NoWrite
  /\ UNCHANGED << rpiRes, rpiRecvN, rpiReplyN, rpiReply, rpiLast, motion_cancel,
                  evSet, smT, joinLeft, stopped, stopPrior, preempted,
                  stopObs >>
  /\ UNCHANGED aggVars

\* start_motion: t.start()
StStart ==
  /\ rpiPc = "st_start"
  /\ workers' = [workers EXCEPT ![motion_thread].pc = "next"]
  /\ rpiPc' = "reply"
  /\ NoWrite
  /\ UNCHANGED << rpiRes, rpiRecvN, rpiReplyN, rpiReply, rpiLast, motion_thread,
                  motion_cancel, evSet, smT, joinLeft, stopped, stopPrior,
                  preempted,
                  stopObs >>
  /\ UNCHANGED aggVars

\* main: sock.send_string(json.dumps(reply))
RpiSend ==
  /\ rpiPc = "reply"
  /\ rpiReply' = rpiRes.reply
  /\ rpiReplyN' = rpiReplyN + 1
  /\ rpiRes' = NoResult
  /\ rpiPc' = "recv"
  /\ NoWrite
  /\ UNCHANGED << rpiRecvN, rpiLast, motion_thread, motion_cancel, evSet, smT,
                  joinLeft, workers, stopped, stopPrior, preempted, stopObs >>

(***************************************************************************)
(* The motion worker: motion_worker, execute_sequence, execute_token,      *)
(* sleep_interruptible                                                     *)
(***************************************************************************)

mainVars == << rpiPc, rpiRes, rpiRecvN, rpiReplyN, rpiReply, rpiLast,
               motion_thread,
               motion_cancel, evSet, smT, joinLeft, stopped, stopPrior,
               preempted,
               stopObs >>

\* execute_token returns: to the loop of execute_sequence, or to
\* motion_worker for a single command
TokenDone(r) ==
  IF r.seq THEN [r EXCEPT !.pc = "next", !.idx = r.idx + 1, !.phase = ""]
  ELSE [r EXCEPT !.pc = "single_end", !.phase = ""]

\* the duration of a token: the default when it names none
DurationOf(dur) == IF dur = NoDur THEN DefaultStepCs ELSE dur

\* execute_token that gives up the rest of the sequence at a token that
\* does not parse
EnterToken_AbortsOnUnknown(r) ==
  LET parsed == parse_command(r.toks[r.idx])
      bits   == STATES(parsed.key)
  IN  IF ~parsed.ok
        THEN [TokenDone(r) EXCEPT !.idx = IF r.seq THEN Len(r.toks) + 1
                                         ELSE r.idx]
      ELSE IF parsed.key = "SLEEP" THEN
        [r EXCEPT !.pc = "sleep", !.phase = "sleep",
                  !.rem = DurationOf(parsed.dur)]
      ELSE IF bits = << >> THEN TokenDone(r)
      ELSE [r EXCEPT !.pc = "apply", !.phase = "motor", !.bits = bits,
                     !.rem = DurationOf(parsed.dur)]

\* execute_token from its entry to the sleep of a SLEEP token or to the
\* pin write of a motor token; a token that does not parse is skipped
EnterToken(r) ==
  LET parsed == parse_command(r.toks[r.idx])
      bits   == STATES(parsed.key)
  IN  IF ~parsed.ok THEN TokenDone(r)
      ELSE IF parsed.key = "SLEEP" THEN
        [r EXCEPT !.pc = "sleep", !.phase = "sleep",
                  !.rem = DurationOf(parsed.dur)]
      ELSE IF bits = << >> THEN TokenDone(r)
      ELSE [r EXCEPT !.pc = "apply", !.phase = "motor", !.bits = bits,
                     !.rem = DurationOf(parsed.dur)]

\* the head of the loop of execute_sequence and the entry of execute_token:
\* both look at the cancel signal
WNext(w) ==
  LET r == workers[w] IN
  /\ r.pc = "next"
  /\ workers' = [workers EXCEPT ![w] =
       IF r.seq /\ (r.idx > Len(r.toks) \/ Cancelled(w))
         THEN [r EXCEPT !.pc = "seq_end"]
       ELSE IF Cancelled(w) THEN TokenDone(r)
       ELSE EnterToken(r)]
  /\ NoWrite
  /\ UNCHANGED << mainVars, aggVars >>

\* execute_token: driver.apply_bits(bits)
WApply(w) ==
  LET r == workers[w] IN
  /\ r.pc = "apply"
  /\ WritePins(w, r.bits)
  /\ workers' = [workers EXCEPT ![w].pc = "sleep",
                                ![w].applied = Append(r.applied, r.bits)]
  /\ UNCHANGED << mainVars, aggVars >>

\* the state of a worker as sleep_interruptible returns
AfterSleep(r) ==
  IF r.phase = "motor" THEN [r EXCEPT !.pc = "after", !.rem = 0]
  ELSE IF r.phase = "pause" THEN [r EXCEPT !.pc = "finally", !.rem = 0]
  ELSE TokenDone([r EXCEPT !.rem = 0])

\* sleep_interruptible that sleeps whole steps
SleepLoop_WholeSteps(r, cancelled) ==
  IF r.rem > 0 /\ ~cancelled
    THEN [r EXCEPT !.pc = "sleeping", !.dt = SleepStepCs]
    ELSE AfterSleep(r)

\* sleep_interruptible that never looks at the cancel signal
SleepLoop_NoCancel(r, cancelled) ==
  IF r.rem > 0
    THEN [r EXCEPT !.pc = "sleeping",
                   !.dt = IF SleepStepCs < r.rem THEN SleepStepCs ELSE r.rem]
    ELSE AfterSleep(r)

\* the head of the loop of sleep_interruptible: leave when nothing remains
\* or the cancel signal is set, else sleep one step
SleepLoop(r, cancelled) ==
  IF r.rem > 0 /\ ~cancelled
    THEN [r EXCEPT !.pc = "sleeping",
                   !.dt = IF SleepStepCs < r.rem THEN SleepStepCs ELSE r.rem]
    ELSE AfterSleep(r)

WSleep(w) ==
  /\ workers[w].pc = "sleep"
  /\ workers' = [workers EXCEPT ![w] = SleepLoop(workers[w], Cancelled(w))]
  /\ NoWrite
  /\ UNCHANGED << mainVars, aggVars >>

\* execute_token after the sleep: driver.stop() unless cancelled
WAfter(w) ==
  LET r == workers[w] IN
  /\ r.pc = "after"
  /\ IF Cancelled(w) THEN NoWrite ELSE WritePins(w, StopBits)
  /\ workers' = [workers EXCEPT ![w] = TokenDone(r)]
  /\ UNCHANGED << mainVars, aggVars >>

\* motion_worker after a single command: driver.stop() unless cancelled
WSingleEnd(w) ==
  LET r == workers[w] IN
  /\ r.pc = "single_end"
  /\ IF Cancelled(w) THEN NoWrite ELSE WritePins(w, StopBits)
  /\ workers' = [workers EXCEPT ![w].pc = "finally"]
  /\ UNCHANGED << mainVars, aggVars >>

\* execute_sequence that does not write the pins after its loop
WSeqEnd_NoStop(w) ==
  LET r == workers[w] IN
  /\ r.pc = "seq_end"
  /\ NoWrite
  /\ workers' = [workers EXCEPT ![w] =
       IF Cancelled(w) THEN [r EXCEPT !.pc = "finally"]
       ELSE [r EXCEPT !.pc = "sleep", !.phase = "pause",
                      !.rem = PauseAfterSeqCs]]
  /\ UNCHANGED << mainVars, aggVars >>

\* execute_sequence after its loop: driver.stop(), then the pause unless
\* cancelled
WSeqEnd(w) ==
  LET r == workers[w] IN
  /\ r.pc = "seq_end"
  /\ WritePins(w, StopBits)
  /\ workers' = [workers EXCEPT ![w] =
       IF Cancelled(w) THEN [r EXCEPT !.pc = "finally"]
       ELSE [r EXCEPT !.pc = "sleep", !.phase = "pause",
                      !.rem = PauseAfterSeqCs]]
  /\ UNCHANGED << mainVars, aggVars >>

\* motion_worker whose finally does not write the pins
WFinally_NoStop(w) ==
  LET r == workers[w] IN
  /\ r.pc = "finally"
  /\ NoWrite
  /\ workers' = [workers EXCEPT ![w] =
       [r EXCEPT !.pc = "dead", !.phase = "", !.bits = << >>, !.idx = 0,
                 !.applied = << >>]]
  /\ UNCHANGED << mainVars, aggVars >>

\* motion_worker's finally: driver.stop(), and the thread ends
WFinally(w) ==
  LET r == workers[w] IN
  /\ r.pc = "finally"
  /\ WritePins(w, StopBits)
  /\ workers' = [workers EXCEPT ![w] =
       [r EXCEPT !.pc = "dead", !.phase = "", !.bits = << >>, !.idx = 0,
                 !.applied = << >>]]
  /\ UNCHANGED << mainVars, aggVars >>

(***************************************************************************)
(* Time                                                                    *)
(***************************************************************************)

\* main that waits before it sends a reply as well
MainBlocked_AlsoAtReply ==
  \/ rpiPc = "recv"
  \/ rpiPc = "reply"
  \/ rpiPc = "sm_join" /\ ~JoinDone(smT)

\* main waits: for a request, or in t.join for a live thread
MainBlocked ==
  \/ rpiPc = "recv"
  \/ rpiPc = "sm_join" /\ ~JoinDone(smT)

\* the running timers: the time.sleep of each worker and the join timeout
Timers ==
  {workers[t].dt : t \in {u \in Tids : workers[u].pc = "sleeping"}}
    \cup (IF rpiPc = "sm_join" THEN {joinLeft} ELSE {})

\* time advances to the next timer to run out, when every live thread is
\* blocked; a time.sleep that has run out returns to sleep_interruptible
Advance ==
  /\ MainBlocked
  /\ \A t \in Tids : Alive(t) => workers[t].pc = "sleeping"
  /\ \E t \in Tids : workers[t].pc = "sleeping"
  /\ LET d == Min(Timers) IN
       /\ workers' = [t \in Tids |->
            IF workers[t].pc # "sleeping" THEN workers[t]
            ELSE IF workers[t].dt = d
              THEN [workers[t] EXCEPT !.pc = "sleep", !.dt = 0,
                                      !.rem = workers[t].rem - d]
            ELSE [workers[t] EXCEPT !.dt = workers[t].dt - d,
                                    !.rem = workers[t].rem - d]]
       /\ joinLeft' = IF rpiPc = "sm_join" THEN joinLeft - d ELSE joinLeft
  /\ NoWrite
  /\ UNCHANGED << rpiPc, rpiRes, rpiRecvN, rpiReplyN, rpiReply, rpiLast,
                  motion_thread, motion_cancel, evSet, smT, stopped,
                  stopPrior, preempted, stopObs >>
  /\ UNCHANGED aggVars

WorkerStep(w) ==
  \/ WNext(w)
  \/ WApply(w)
  \/ WSleep(w)
  \/ WAfter(w)
  \/ WSingleEnd(w)
  \/ WSeqEnd(w)
  \/ WFinally(w)

\* the steps of the actuator between a request and its reply, and time
Motion ==
  \/ SmLock
  \/ SmJoin
  \/ SmStop
  \/ SmClear
  \/ StCreate
  \/ StStart
  \/ \E w \in Tids : WorkerStep(w)
  \/ Advance

(***************************************************************************)
(* The command server thread, the console thread and the request socket    *)
(***************************************************************************)

\* the frames the producer sends in one run
MaxFrames == 2

\* the lines the console reads in one run
MaxLines == 1

\* a frame on the wire: its text, and whether its bytes are valid UTF-8
Frame(text, utf8) == [text |-> text, utf8 |-> utf8]

Frames ==
  { Frame(" STOP\n", TRUE), Frame("forward 0.05", TRUE),
    Frame("teleport 3", TRUE), Frame("", TRUE),
    Frame("{\"cmd\": \"stop\"}", TRUE), Frame("{\"cmd\": 5}", TRUE),
    Frame("?", FALSE) }

\* the lines typed at the console
ConLines == { "stop", "seq left 0.05", "dance" }

\* a reply of the command server; None for a key it lacks
SrvReplyOf(status, cmd, original, forwarded, message, error) ==
  [status |-> status, cmd |-> cmd, original |-> original,
   forwarded |-> forwarded, message |-> message, error |-> error]

NoSrvReply == SrvReplyOf(None, None, None, FALSE, None, None)

NoCur == [payload |-> PyNone, processed |-> None, msg |-> None,
          failed |-> FALSE, reply |-> NoSrvReply]

\* what lastCall holds before any call
NoCall ==
  [op |-> "none", command |-> PyNone, source |-> None, priority |-> 0,
   success |-> FALSE, processed |-> None, msg |-> None,
   before |-> NewAggregator]

\* what lastCall holds after process_command(command, source, priority),
\* called on the aggregator a, has returned res
CallOf(a, command, source, priority, res) ==
  [op |-> "process", command |-> command, source |-> source,
   priority |-> priority, success |-> res.success,
   processed |-> res.processed, msg |-> res.msg, before |-> a]

\* acceptedLog after that call
LogAfter(log, command, source, priority, res) ==
  IF res.success
    THEN Append(log, [raw |-> command, processed |-> res.processed,
                      source |-> source, priority |-> priority])
    ELSE log

\* threads that call the aggregator at the same time
MaxThreads == 2

LockThreads == 1..MaxThreads

\* a thread that is in no call of the aggregator and has made none
NoCaller ==
  [pc |-> "idle", op |-> "none", command |-> PyNone, source |-> None,
   val |-> Validation(FALSE, FALSE, None),
   stats |-> get_stats(NewAggregator), history |-> << >>,
   base |-> NewAggregator, seen |-> 0]

InitLock ==
  /\ lockHolder = NoThread
  /\ callers = [t \in LockThreads |-> NoCaller]
  /\ committed = agg
  /\ acceptedN = 0
  /\ opsStarted = 0

\* a message on the heartbeat socket: what recv_json makes of it
HbMessage(json, dict, type, ts) ==
  [json |-> json, dict |-> dict, type |-> type, ts |-> ts]

\* float("inf"), the age when no heartbeat has come
INF == 1000000

\* the age above which the controller loop warns, in seconds
StaleAfter == 3

InitHeartbeat ==
  /\ last_heartbeat_ts = 0
  /\ hbNow = 1
  /\ hbPc = "recv"
  /\ hbWakeAt = 0
  /\ hbRecvN = 0
  /\ hbMsg = HbMessage(FALSE, FALSE, None, 0)
  /\ ctlPc = "watch"
  /\ ctlAge = 0
  /\ ctlWarned = FALSE
  /\ ctlLast = [button |-> None, age |-> 0, success |-> FALSE,
                sent |-> None]
  /\ ctlPresses = 0

\* the request client as its main has made the socket and the poller
InitClient ==
  /\ cliPc = "idle"
  /\ cliPayload = None
  /\ cliAttempt = 0
  /\ cliTimeouts = 0
  /\ cliSock = 1
  /\ cliSockets = 1
  /\ cliOpen = {1}
  /\ cliRegistered = {1}
  /\ cliReturned = << >>
  /\ cliRaised = None

InitPayload ==
  /\ payLog = << >>
  /\ payRes = [text |-> NoResult, json |-> NoResult, auto |-> NoResult]

InitSleep ==
  /\ slp = NoWorker
  /\ slpD = 0
  /\ slpSlept = 0
  /\ slpCancel = FALSE
  /\ slpSaw = FALSE
  /\ slpCalls = 0

InitRecent ==
  recent = [called |-> FALSE, count |-> 0, of |-> << >>, list |-> << >>]

\* the D-pad at rest
Neutral == << 0, 0 >>

\* an intent of a turn of the controller loop: its command, None when the
\* turn has none, and whether send_command was called with it
PadIntent(cmd, sent) == [cmd |-> cmd, sent |-> sent]

\* the controller loop as it begins: nothing sent yet, the clock well past
\* the cooldown
InitPad ==
  /\ padNow = 10
  /\ last_hat = Neutral
  /\ last_hat_send_time = 0
  /\ last_send_time = 0
  /\ last_buttons = 0
  /\ padTurns = 0
  /\ padHat = PadIntent(None, FALSE)
  /\ padBtn = PadIntent(None, FALSE)

\* a thread that is not in get_aggregator
NoGetter == [pc |-> "idle", ret |-> None, late |-> FALSE]

\* the module command_aggregator as imported: no instance yet
InitSingleton ==
  /\ aggregator_instance = None
  /\ aggregator_lock = NoThread
  /\ getters = [t \in LockThreads |-> NoGetter]
  /\ instancesMade = 0
  /\ getsStarted = 0

InitRest ==
  /\ InitPad
  /\ InitSingleton
  /\ InitLock
  /\ InitHeartbeat
  /\ InitClient
  /\ InitPayload
  /\ InitSleep
  /\ InitRecent

\* the node before its threads have done anything
InitNet ==
  /\ srvPc = "poll"
  /\ srvCur = NoCur
  /\ srvRecvN = 0
  /\ srvReplyN = 0
  /\ srvRep = "ready"
  /\ prodWire = << >>
  /\ prodState = "idle"
  /\ prodSentN = 0
  /\ prodReply = NoSrvReply
  /\ conPc = "input"
  /\ conCur = None
  /\ conLines = 0
  /\ reqState = "idle"
  /\ wireReq = << >>
  /\ wireRep = << >>
  /\ anyFwdFailed = FALSE

InitAggregator ==
  /\ agg = NewAggregator
  /\ lastCall = NoCall
  /\ acceptedLog = << >>
  /\ InitNet

\* a producer (the vision node) sends a request and waits for its reply
ProdSend(frame) ==
  /\ prodState = "idle"
  /\ prodSentN < MaxFrames
  /\ prodSentN' = prodSentN + 1
  /\ prodState' = "waiting"
  /\ prodWire' = Append(prodWire, frame)
  /\ UNCHANGED << agg, lastCall, acceptedLog, srvPc, srvCur, srvRecvN,
                  srvReplyN, srvRep, prodReply,
                  conPc, conCur, conLines, reqState, wireReq, wireRep, rpiUp,
                  anyFwdFailed >>
  /\ UNCHANGED << actVars, restVars >>

\* the payload the command server takes from a received text:
\* msg_obj.get("cmd", raw) of a JSON object, raw.strip() otherwise
PayloadOf(raw) ==
  LET obj == JsonLoads(raw) IN
  IF obj.dict
    THEN IF ~obj.hasCmd THEN PyStr(raw)
         ELSE IF obj.cmdIsStr THEN PyStr(obj.cmd) ELSE PyInt(obj.cmd)
    ELSE PyStr(Strip(raw))

\* the reply of the command server to a command that was not accepted
RejectedReply_NoText(res) ==
  SrvReplyOf("error", None, None, FALSE, None, res.processed)

RejectedReply(res) == SrvReplyOf("error", None, None, FALSE, None, res.msg)

\* command_server_loop from poll to the call of send_command or to the
\* error reply; recv_string raises on bytes that are not UTF-8, and the
\* loop goes on without a reply
SrvRecv ==
  /\ srvPc = "poll"
  /\ srvRep = "ready"
  /\ prodWire # << >>
  /\ prodWire' = Tail(prodWire)
  /\ srvRecvN' = srvRecvN + 1
  /\ srvRep' = "must_send"
  /\ LET frame   == Head(prodWire)
         payload == PayloadOf(frame.text)
         res     == process_command(agg, payload, JETSON, HIGH)
     IN  IF ~frame.utf8 THEN
           UNCHANGED << agg, lastCall, acceptedLog, srvPc, srvCur >>
         ELSE
           /\ agg' = res.agg
           /\ lastCall' = CallOf(agg, payload, JETSON, HIGH, res)
           /\ acceptedLog' =
                LogAfter(acceptedLog, payload, JETSON, HIGH, res)
           /\ IF res.success /\ Len(res.processed) > 0
                THEN /\ srvPc' = "send"
                     /\ srvCur' = [payload |-> payload,
                                   processed |-> res.processed,
                                   msg |-> res.msg, failed |-> FALSE,
                                   reply |-> NoSrvReply]
                ELSE /\ srvPc' = "reply"
                     /\ srvCur' = [payload |-> payload, processed |-> None,
                                   msg |-> res.msg, failed |-> FALSE,
                                   reply |-> RejectedReply(res)]
  /\ UNCHANGED << srvReplyN, prodState, prodSentN, prodReply, conPc, conCur,
                  conLines, reqState, wireReq, wireRep, rpiUp, anyFwdFailed >>
  /\ UNCHANGED << actVars, restVars >>

\* the reply of the command server after send_command has returned
ForwardedReply(cur) ==
  SrvReplyOf("ok", cur.processed, cur.payload.v, TRUE, cur.msg, None)

\* send_command, sock.send_string(cmd), called by the command server: the
\* REQ socket looks at its state first, and a socket that still owes a recv
\* raises, which send_command only prints. No lock is held: the socket is
\* shared with the console thread, whose send may be between its own look
\* at the state and its write
SrvSend ==
  /\ srvPc = "send"
  /\ IF reqState = "idle"
       THEN /\ srvPc' = "sending"
            /\ UNCHANGED srvCur
       ELSE /\ srvCur' = [srvCur EXCEPT !.failed = TRUE,
                                        !.reply = ForwardedReply(srvCur)]
            /\ srvPc' = "reply"
  /\ anyFwdFailed' = (anyFwdFailed \/ reqState # "idle")
  /\ UNCHANGED << agg, lastCall, acceptedLog, srvRecvN, srvReplyN, srvRep,
                  prodWire, prodState,
                  prodSentN, prodReply, conPc, conCur, conLines, reqState,
                  wireReq, wireRep, rpiUp >>
  /\ UNCHANGED << actVars, restVars >>

\* send_string of the command server puts the request on the wire
SrvSendOut ==
  /\ srvPc = "sending"
  /\ wireReq' = Append(wireReq, srvCur.processed)
  /\ reqState' = "sent"
  /\ srvPc' = "recv"
  /\ UNCHANGED << agg, lastCall, acceptedLog, srvCur, srvRecvN, srvReplyN,
                  srvRep, prodWire,
                  prodState, prodSentN, prodReply, conPc, conCur, conLines,
                  wireRep, rpiUp, anyFwdFailed >>
  /\ UNCHANGED << actVars, restVars >>

\* send_command, sock.recv(), called by the command server: it returns when
\* a reply of the actuator has come, and raises on a socket whose exchange
\* the other thread has completed
SrvRecvReply ==
  /\ srvPc = "recv"
  /\ IF reqState = "idle"
       THEN /\ srvCur' = [srvCur EXCEPT !.failed = TRUE,
                                        !.reply = ForwardedReply(srvCur)]
            /\ anyFwdFailed' = TRUE
            /\ UNCHANGED << wireRep, reqState >>
       ELSE /\ wireRep # << >>
            /\ wireRep' = Tail(wireRep)
            /\ reqState' = "idle"
            /\ srvCur' = [srvCur EXCEPT !.reply = ForwardedReply(srvCur)]
            /\ UNCHANGED anyFwdFailed
  /\ srvPc' = "reply"
  /\ UNCHANGED << agg, lastCall, acceptedLog, srvRecvN, srvReplyN, srvRep,
                  prodWire, prodState,
                  prodSentN, prodReply, conPc, conCur, conLines, wireReq,
                  rpiUp >>
  /\ UNCHANGED << actVars, restVars >>

\* server_sock.send_string(json.dumps(reply))
SrvReply ==
  /\ srvPc = "reply"
  /\ srvReplyN' = srvReplyN + 1
  /\ srvRep' = "ready"
  /\ prodReply' = srvCur.reply
  /\ prodState' = "idle"
  /\ srvCur' = NoCur
  /\ srvPc' = "poll"
  /\ UNCHANGED << agg, lastCall, acceptedLog, srvRecvN, prodWire, prodSentN,
                  conPc, conCur,
                  conLines, reqState, wireReq, wireRep, rpiUp, anyFwdFailed >>
  /\ UNCHANGED << actVars, restVars >>

\* seq_console_loop: a line that is no navigation word goes through
\* process_command, and on to send_command if it is accepted
ConInput(line) ==
  LET res == process_command(agg, PyStr(Strip(line)), MANUAL, NORMAL) IN
  /\ conPc = "input"
  /\ conLines < MaxLines
  /\ Len(Strip(line)) > 0
  /\ Lower(Strip(line)) \notin {"back", "menu", "exit", "quit", "q"}
  /\ conLines' = conLines + 1
  /\ agg' = res.agg
  /\ lastCall' = CallOf(agg, PyStr(Strip(line)), MANUAL, NORMAL, res)
  /\ acceptedLog' =
       LogAfter(acceptedLog, PyStr(Strip(line)), MANUAL, NORMAL, res)
  /\ IF res.success /\ Len(res.processed) > 0
       THEN conPc' = "send" /\ conCur' = res.processed
       ELSE UNCHANGED << conPc, conCur >>
  /\ UNCHANGED << srvPc, srvCur, srvRecvN, srvReplyN, srvRep, prodWire,
                  prodState, prodSentN, prodReply, reqState, wireReq,
                  wireRep, rpiUp, anyFwdFailed >>
  /\ UNCHANGED << actVars, restVars >>

\* seq_console_loop: Ctrl+C or end of input at the prompt sends stop
\* straight to send_command and leaves the mode
ConInterrupt ==
  /\ conPc = "input"
  /\ conLines < MaxLines
  /\ conLines' = conLines + 1
  /\ conPc' = "send"
  /\ conCur' = "stop"
  /\ UNCHANGED << agg, lastCall, acceptedLog, srvPc, srvCur, srvRecvN,
                  srvReplyN, srvRep, prodWire,
                  prodState, prodSentN, prodReply, reqState, wireReq,
                  wireRep, rpiUp, anyFwdFailed >>
  /\ UNCHANGED << actVars, restVars >>

\* send_command, sock.send_string(cmd), called by the console: the look at
\* the state of the socket
ConSend ==
  /\ conPc = "send"
  /\ IF reqState = "idle"
       THEN /\ conPc' = "sending"
            /\ UNCHANGED conCur
       ELSE /\ conPc' = "input"
            /\ conCur' = None
  /\ anyFwdFailed' = (anyFwdFailed \/ reqState # "idle")
  /\ UNCHANGED << agg, lastCall, acceptedLog, srvPc, srvCur, srvRecvN,
                  srvReplyN, srvRep, prodWire,
                  prodState, prodSentN, prodReply, conLines, reqState,
                  wireReq, wireRep, rpiUp >>
  /\ UNCHANGED << actVars, restVars >>

\* send_string of the console puts the request on the wire
ConSendOut ==
  /\ conPc = "sending"
  /\ wireReq' = Append(wireReq, conCur)
  /\ reqState' = "sent"
  /\ conPc' = "recv"
  /\ UNCHANGED << agg, lastCall, acceptedLog, srvPc, srvCur, srvRecvN,
                  srvReplyN, srvRep, prodWire,
                  prodState, prodSentN, prodReply, conCur, conLines, wireRep,
                  rpiUp, anyFwdFailed >>
  /\ UNCHANGED << actVars, restVars >>

\* send_command, sock.recv(), called by the console
ConRecvReply ==
  /\ conPc = "recv"
  /\ IF reqState = "idle"
       THEN /\ anyFwdFailed' = TRUE
            /\ UNCHANGED << wireRep, reqState >>
       ELSE /\ wireRep # << >>
            /\ wireRep' = Tail(wireRep)
            /\ reqState' = "idle"
            /\ UNCHANGED anyFwdFailed
  /\ conPc' = "input"
  /\ conCur' = None
  /\ UNCHANGED << agg, lastCall, acceptedLog, srvPc, srvCur, srvRecvN,
                  srvReplyN, srvRep, prodWire,
                  prodState, prodSentN, prodReply, conLines, wireReq, rpiUp >>
  /\ UNCHANGED << actVars, restVars >>

\* the request loop of the actuator takes a forwarded request
RpiRecvWire ==
  /\ rpiUp
  /\ wireReq # << >>
  /\ RpiRecv(Head(wireReq))
  /\ wireReq' = Tail(wireReq)
  /\ UNCHANGED << agg, lastCall, acceptedLog, srvPc, srvCur, srvRecvN,
                  srvReplyN, srvRep, prodWire,
                  prodState, prodSentN, prodReply, conPc, conCur, conLines,
                  reqState, wireRep, rpiUp, anyFwdFailed, restVars >>

\* the request loop of the actuator sends its reply to the aggregator
RpiSendWire ==
  /\ RpiSend
  /\ wireRep' = Append(wireRep, rpiRes.reply)
  /\ UNCHANGED << agg, lastCall, acceptedLog, srvPc, srvCur, srvRecvN,
                  srvReplyN, srvRep, prodWire,
                  prodState, prodSentN, prodReply, conPc, conCur, conLines,
                  reqState, wireReq, rpiUp, anyFwdFailed, restVars >>

\* the actuator alone, any requester sending it the payloads of RpiPayloads
RpiRecvAny(payload) == RpiRecv(payload) /\ UNCHANGED aggVars

RpiSendAny == RpiSend /\ UNCHANGED aggVars

NextAct ==
  \/ \E payload \in RpiPayloads : RpiRecvAny(payload)
  \/ Motion
  \/ RpiSendAny

InitAct == InitActuator /\ InitAggregator /\ InitRest /\ rpiUp = TRUE

SpecAct == InitAct /\ [][NextAct]_vars

\* the aggregator node with its producer and its console, and the actuator
\* serving the requests it forwards
NextAgg ==
  \/ \E frame \in Frames : ProdSend(frame)
  \/ SrvRecv
  \/ SrvSend
  \/ SrvSendOut
  \/ SrvRecvReply
  \/ SrvReply
  \/ \E line \in ConLines : ConInput(line)
  \/ ConInterrupt
  \/ ConSend
  \/ ConSendOut
  \/ ConRecvReply
  \/ RpiRecvWire
  \/ Motion
  \/ RpiSendWire

InitAgg ==
  InitActuator /\ InitAggregator /\ InitRest /\ rpiUp \in BOOLEAN

SpecAgg == InitAgg /\ [][NextAgg]_vars

(***************************************************************************)
(* The aggregator alone, called the way its callers and its tests call it  *)
(***************************************************************************)

\* calls of process_command in one run
MaxCalls == 3

\* the capacities the aggregator under test is built with
Capacities == {1, 2}

\* the commands submitted: accepted ones, a head that is not allowed, a
\* text of white space, the empty text, and a value that is no text
ProcCommands ==
  { PyStr("stop"), PyStr("forward 2"), PyStr("dance"), PyStr("  "),
    PyStr(""), PyInt("5") }

Priorities == {LOW, NORMAL, HIGH}

\* a call of process_command on the aggregator
Submit(command, source, priority) ==
  LET res == process_command(agg, command, source, priority) IN
  /\ agg' = res.agg
  /\ lastCall' = CallOf(agg, command, source, priority, res)
  /\ acceptedLog' = LogAfter(acceptedLog, command, source, priority, res)
  /\ UNCHANGED << netVars, actVars, restVars >>

ProcSubmit ==
  /\ agg.total_commands < MaxCalls
  /\ \E command \in ProcCommands, source \in Sources,
        priority \in Priorities : Submit(command, source, priority)

\* a call of clear_history on the aggregator
ClearHistory ==
  /\ agg' = clear_history(agg)
  /\ lastCall' = [NoCall EXCEPT !.op = "clear", !.before = agg]
  /\ acceptedLog' = << >>
  /\ UNCHANGED << netVars, actVars, restVars >>

NextProc == ProcSubmit \/ ClearHistory

InitProc ==
  /\ InitActuator
  /\ InitNet
  /\ rpiUp = TRUE
  /\ agg \in {CommandAggregator(maxlen) : maxlen \in Capacities}
  /\ lastCall = NoCall
  /\ acceptedLog = << >>
  /\ InitRest

SpecProc == InitProc /\ [][NextProc]_vars

(***************************************************************************)
(* The validation of the aggregator, over texts of every shape             *)
(***************************************************************************)

\* texts submitted in one run
MaxSubmits == 2

\* the texts of test_basic_validation and test_error_handling, and texts
\* with capital letters, with the colon form and with fields that are no
\* numbers
ValTexts ==
  { "forward", "forward 2", "left:1.5", "invalid_cmd", "", "stop",
    "seq forward 2; right 1; stop", "bad_command 123", "xyz",
    "left 1.5", "FORWARD 2", " Stop\n", "SEQ stop", "seq", "  ",
    "forward abc", "left:abc", "backward -1", "xyz:1", ":left",
    "sleep 0.05", "lock", "unlock", "Right:2" }

ValSubmit ==
  /\ agg.total_commands < MaxSubmits
  /\ \E text \in ValTexts : Submit(PyStr(text), MANUAL, NORMAL)

NextVal == ValSubmit

InitVal == InitActuator /\ InitAggregator /\ InitRest /\ rpiUp = TRUE

SpecVal == InitVal /\ [][NextVal]_vars


(***************************************************************************)
(* The aggregator called by several threads: self.lock                     *)
(***************************************************************************)

\* calls of the aggregator begun in one run
MaxOps == 3

\* the texts the threads submit: an accepted one and a rejected one
LockCommands == { PyStr("stop"), PyStr("dance") }

\* the count the threads ask get_recent_history for
RecentCount == 1

lockRest ==
  << lastCall, acceptedLog, netVars, actVars, hbVars, ctlVars, cliVars,
     moreVars >>

\* a thread calls process_command, clear_history, get_stats or
\* get_recent_history and comes to the with self.lock of the method
Call(t, op, command, source) ==
  /\ callers[t].pc = "idle"
  /\ opsStarted < MaxOps
  /\ opsStarted' = opsStarted + 1
  /\ callers' = [callers EXCEPT ![t] =
                   [NoCaller EXCEPT !.pc = "acquire", !.op = op,
                                    !.command = command, !.source = source]]
  /\ UNCHANGED << agg, lockHolder, committed, acceptedN, lockRest >>

\* a lock that lets every thread in
LockFree_Always == TRUE

\* threading.Lock: acquire returns when no thread holds the lock
LockFree == lockHolder = NoThread

\* with self.lock: the thread enters the block of its method
Acquire(t) ==
  /\ callers[t].pc = "acquire"
  /\ LockFree
  /\ lockHolder' = t
  /\ callers' = [callers EXCEPT
                   ![t].pc = CASE callers[t].op = "process" -> "count_total"
                               [] callers[t].op = "clear" -> "clear"
                               [] callers[t].op = "get_stats" -> "read_counts"
                               [] OTHER -> "copy",
                   ![t].base = committed,
                   ![t].seen = acceptedN]
  /\ UNCHANGED << agg, committed, acceptedN, opsStarted, lockRest >>

\* a statement of a block that changes the aggregator and goes on at pc
LockStep(t, from, to, after) ==
  /\ callers[t].pc = from
  /\ agg' = after
  /\ callers' = [callers EXCEPT ![t].pc = to]
  /\ UNCHANGED << lockHolder, committed, acceptedN, opsStarted, lockRest >>

\* self.stats["total_commands"] += 1
PcCountTotal(t) ==
  LockStep(t, "count_total", "count_source",
           [agg EXCEPT !.total_commands = agg.total_commands + 1])

\* process_command that does not count the call under its source
PcCountSource_Skipped(t) == LockStep(t, "count_source", "validate", agg)

\* self.stats["by_source"][source] = ... + 1
PcCountSource(t) ==
  LockStep(t, "count_source", "validate",
           [agg EXCEPT !.by_source[callers[t].source] =
                         agg.by_source[callers[t].source] + 1])

\* self._validate_command(command) and the test of its verdict
PcValidate(t) ==
  LET val == validate_command(callers[t].command) IN
  /\ callers[t].pc = "validate"
  /\ callers' = [callers EXCEPT
                   ![t].val = val,
                   ![t].pc = IF val.raised \/ ~val.valid THEN "error"
                             ELSE "history"]
  /\ UNCHANGED << agg, lockHolder, committed, acceptedN, opsStarted,
                  lockRest >>

\* self.stats["errors"] += 1 and the return that follows it, in the branch
\* of the rejection or in the except clause
PcError(t) ==
  LockStep(t, "error", "release", [agg EXCEPT !.errors = agg.errors + 1])

\* self._add_to_history(command, source, priority, processed_cmd)
PcHistory(t) ==
  LockStep(t, "history", "last",
           [agg EXCEPT !.command_history =
              DequeAppend(agg.command_history,
                          [raw |-> callers[t].command,
                           processed |-> callers[t].val.normalized,
                           source |-> callers[t].source,
                           priority |-> NORMAL],
                          agg.maxlen)])

\* self.last_command = processed_cmd and the return that follows it
PcLast(t) ==
  LockStep(t, "last", "release",
           [agg EXCEPT !.last_command = callers[t].val.normalized])

\* self.command_history.clear()
PcClear(t) == LockStep(t, "clear", "release", clear_history(agg))

\* get_stats reads the counters
StatsCounts(t) ==
  /\ callers[t].pc = "read_counts"
  /\ callers' = [callers EXCEPT
                   ![t].stats =
                     [callers[t].stats EXCEPT
                        !.total_commands = get_stats(agg).total_commands,
                        !.by_source = get_stats(agg).by_source,
                        !.errors = get_stats(agg).errors],
                   ![t].pc = "read_rest"]
  /\ UNCHANGED << agg, lockHolder, committed, acceptedN, opsStarted,
                  lockRest >>

\* get_stats reads last_command and the length of the history
StatsRest(t) ==
  /\ callers[t].pc = "read_rest"
  /\ callers' = [callers EXCEPT
                   ![t].stats =
                     [callers[t].stats EXCEPT
                        !.last_command = get_stats(agg).last_command,
                        !.history_size = get_stats(agg).history_size],
                   ![t].pc = "release"]
  /\ UNCHANGED << agg, lockHolder, committed, acceptedN, opsStarted,
                  lockRest >>

\* get_recent_history copies the history and cuts its last entries
RecentCopy(t) ==
  /\ callers[t].pc = "copy"
  /\ callers' = [callers EXCEPT
                   ![t].history = get_recent_history(agg, RecentCount),
                   ![t].pc = "release"]
  /\ UNCHANGED << agg, lockHolder, committed, acceptedN, opsStarted,
                  lockRest >>

\* the thread leaves the block: the lock is released and the method
\* returns
Release(t) ==
  /\ callers[t].pc = "release"
  /\ lockHolder' = NoThread
  /\ committed' = agg
  /\ acceptedN' = IF callers[t].op = "process" /\ callers[t].val.valid
                    THEN acceptedN + 1 ELSE acceptedN
  /\ callers' = [callers EXCEPT ![t].pc = "idle"]
  /\ UNCHANGED << agg, opsStarted, lockRest >>

NextLock ==
  \E t \in LockThreads :
    \/ \E command \in LockCommands, source \in Sources :
         Call(t, "process", command, source)
    \/ Call(t, "clear", PyNone, None)
    \/ Call(t, "get_stats", PyNone, None)
    \/ Call(t, "get_recent_history", PyNone, None)
    \/ Acquire(t)
    \/ PcCountTotal(t)
    \/ PcCountSource(t)
    \/ PcValidate(t)
    \/ PcError(t)
    \/ PcHistory(t)
    \/ PcLast(t)
    \/ PcClear(t)
    \/ StatsCounts(t)
    \/ StatsRest(t)
    \/ RecentCopy(t)
    \/ Release(t)

SpecLock == InitAct /\ [][NextLock]_vars

(***************************************************************************)
(* The heartbeat listener and the controller loop                          *)
(***************************************************************************)

\* the last reading of the clock in one run
MaxClock == 5

\* messages the listener takes in one run
MaxBeats == 2

\* presses the controller loop handles in one run
MaxPresses == 1

\* what comes on the heartbeat socket: heartbeats with timestamps in and
\* out of order, a message of another type, a dictionary with no type, a
\* JSON value that is no dictionary, and bytes that are no JSON
HbMessages ==
  { HbMessage(TRUE, TRUE, "heartbeat", 5),
    HbMessage(TRUE, TRUE, "heartbeat", 2),
    HbMessage(TRUE, TRUE, "heartbeat", 0),
    HbMessage(TRUE, TRUE, "status", 9),
    HbMessage(TRUE, TRUE, None, 9),
    HbMessage(TRUE, FALSE, None, 0),
    HbMessage(FALSE, FALSE, None, 0) }

hbRest ==
  << agg, lastCall, acceptedLog, netVars, actVars, lockVars, cliVars,
     moreVars >>

\* time passes on the aggregator node
HbTick ==
  /\ hbNow < MaxClock
  /\ hbNow' = hbNow + 1
  /\ UNCHANGED << last_heartbeat_ts, hbPc, hbWakeAt, hbRecvN, hbMsg,
                  ctlVars, hbRest >>

\* a listener that keeps the timestamp the message carries
HeartbeatSeen_KeepsMessageTs(msg, now) == msg.ts

\* what the listener stores for a heartbeat: time.time() as it handles it
HeartbeatSeen(msg, now) == now

\* one turn of the loop of the listener: recv_json, the test of the type,
\* the store under heartbeat_lock; an exception is printed and followed
\* by a sleep of one second
HbRecv(msg) ==
  /\ hbPc = "recv"
  /\ hbRecvN < MaxBeats
  /\ hbRecvN' = hbRecvN + 1
  /\ hbMsg' = msg
  /\ IF ~msg.json \/ ~msg.dict
       THEN /\ hbPc' = "sleep"
            /\ hbWakeAt' = hbNow + 1
            /\ UNCHANGED last_heartbeat_ts
       ELSE /\ last_heartbeat_ts' =
                 IF msg.type = "heartbeat" THEN HeartbeatSeen(msg, hbNow)
                 ELSE last_heartbeat_ts
            /\ UNCHANGED << hbPc, hbWakeAt >>
  /\ UNCHANGED << hbNow, ctlVars, hbRest >>

\* the time.sleep(1.0) of the except clause ends
HbWake ==
  /\ hbPc = "sleep"
  /\ hbNow >= hbWakeAt
  /\ hbPc' = "recv"
  /\ UNCHANGED << last_heartbeat_ts, hbNow, hbWakeAt, hbRecvN, hbMsg,
                  ctlVars, hbRest >>

\* get_heartbeat_age()
get_heartbeat_age(ts, now) == IF ts <= 0 THEN INF ELSE now - ts

\* the head of the loop of controller_loop: the heartbeat watchdog
CtlWatchdog ==
  /\ ctlPc = "watch"
  /\ ctlPresses < MaxPresses
  /\ ctlAge' = get_heartbeat_age(last_heartbeat_ts, hbNow)
  /\ ctlWarned' = (get_heartbeat_age(last_heartbeat_ts, hbNow) > StaleAfter)
  /\ ctlPc' = "buttons"
  /\ UNCHANGED << ctlLast, ctlPresses, hbVars, hbRest >>

Buttons == {"A", "B", "X", "Y"}

\* the command of a button
ButtonCommand(btn_name) ==
  CASE btn_name = "A" -> "unlock"
    [] btn_name = "B" -> "lock"
    [] btn_name = "X" -> "stop"
    [] OTHER -> "seq forward 1; right 1; backward 1; left 1; stop"

\* a controller loop that handles a press only when the heartbeat is fresh
CtlPress_OnlyWhenFresh(btn_name) ==
  LET cmd == PyStr(ButtonCommand(btn_name))
      priority == IF btn_name = "X" THEN HIGH ELSE NORMAL
      res == process_command(agg, cmd, CONTROLLER, priority)
      fresh == ctlAge <= StaleAfter
  IN  /\ ctlPc = "buttons"
      /\ agg' = IF fresh THEN res.agg ELSE agg
      /\ lastCall' = IF fresh
                       THEN CallOf(agg, cmd, CONTROLLER, priority, res)
                       ELSE lastCall
      /\ acceptedLog' =
           IF fresh THEN LogAfter(acceptedLog, cmd, CONTROLLER, priority, res)
           ELSE acceptedLog
      /\ ctlLast' = [button |-> btn_name, age |-> ctlAge,
                     success |-> fresh /\ res.success,
                     sent |-> IF fresh /\ res.success
                                   /\ Truthy(PyStr(res.processed))
                                THEN res.processed ELSE None]
      /\ ctlPresses' = ctlPresses + 1
      /\ ctlPc' = "watch"
      /\ UNCHANGED << ctlAge, ctlWarned, hbVars, netVars, actVars,
                      lockVars, cliVars, moreVars >>

\* a button has just been pressed: the command of the button goes through
\* process_command and, accepted, to send_command
CtlPress(btn_name) ==
  LET cmd == PyStr(ButtonCommand(btn_name))
      priority == IF btn_name = "X" THEN HIGH ELSE NORMAL
      res == process_command(agg, cmd, CONTROLLER, priority)
  IN  /\ ctlPc = "buttons"
      /\ agg' = res.agg
      /\ lastCall' = CallOf(agg, cmd, CONTROLLER, priority, res)
      /\ acceptedLog' = LogAfter(acceptedLog, cmd, CONTROLLER, priority, res)
      /\ ctlLast' = [button |-> btn_name, age |-> ctlAge,
                     success |-> res.success,
                     sent |-> IF res.success /\ Truthy(PyStr(res.processed))
                                THEN res.processed ELSE None]
      /\ ctlPresses' = ctlPresses + 1
      /\ ctlPc' = "watch"
      /\ UNCHANGED << ctlAge, ctlWarned, hbVars, netVars, actVars,
                      lockVars, cliVars, moreVars >>

\* no button has been pressed in this turn of the loop
CtlNoPress ==
  /\ ctlPc = "buttons"
  /\ ctlPc' = "watch"
  /\ UNCHANGED << ctlAge, ctlWarned, ctlLast, ctlPresses, hbVars, hbRest >>

\* the controller loop beside the heartbeat listener
NextCtl ==
  \/ HbTick
  \/ \E msg \in HbMessages : HbRecv(msg)
  \/ HbWake
  \/ CtlWatchdog
  \/ \E btn_name \in Buttons : CtlPress(btn_name)
  \/ CtlNoPress

SpecCtl == InitAct /\ [][NextCtl]_vars

(***************************************************************************)
(* The request client with retries: src/pc_client.py                       *)
(***************************************************************************)

\* REQ_RETRIES
REQ_RETRIES == 3

\* calls of send_command in one run
MaxSends == 3

\* the payloads the main of the client sends, by their cmd
CliPayloads == {"unlock", "move", "stop", "lock"}

\* what the server may answer: a reply of status ok, one of status error,
\* and bytes that are no JSON
CliAnswers == {"ok", "error", "not json"}

cliRest == << agg, lastCall, acceptedLog, netVars, actVars, lockVars,
              hbVars, ctlVars, moreVars >>

\* main calls send_command(sock, poller, payload): the loop begins
CliCall(payload) ==
  /\ cliPc = "idle"
  /\ Len(cliReturned) < MaxSends
  /\ cliPayload' = payload
  /\ cliAttempt' = 1
  /\ cliTimeouts' = 0
  /\ cliPc' = "send"
  /\ UNCHANGED << cliSock, cliSockets, cliOpen, cliRegistered, cliReturned,
                  cliRaised, cliRest >>

\* sock.send(data)
CliSend ==
  /\ cliPc = "send"
  /\ cliPc' = "poll"
  /\ UNCHANGED << cliPayload, cliAttempt, cliTimeouts, cliSock, cliSockets,
                  cliOpen, cliRegistered, cliReturned, cliRaised, cliRest >>

\* poller.poll reports the socket readable within REQ_TIMEOUT_MS:
\* sock.recv(), json.loads of the reply, with invalid_json_reply for what
\* is no JSON, and the return of the message
CliPollReply(answer) ==
  LET msg == IF answer = "not json"
               THEN [status |-> "error", error |-> "invalid_json_reply"]
               ELSE [status |-> answer, error |-> None] IN
  /\ cliPc = "poll"
  /\ cliSock \in cliOpen \cap cliRegistered
  /\ cliReturned' = Append(cliReturned,
                           [cmd |-> cliPayload, attempt |-> cliAttempt,
                            msg |-> msg])
  /\ cliPc' = "idle"
  /\ UNCHANGED << cliPayload, cliAttempt, cliTimeouts, cliSock, cliSockets,
                  cliOpen, cliRegistered, cliRaised, cliRest >>

\* poller.poll returns nothing for the socket: the socket is closed and
\* sock is bound to a new one, connected
CliPollTimeout ==
  /\ cliPc = "poll"
  /\ cliTimeouts' = cliTimeouts + 1
  /\ cliOpen' = (cliOpen \ {cliSock}) \cup {cliSockets + 1}
  /\ cliSockets' = cliSockets + 1
  /\ cliSock' = cliSockets + 1
  /\ cliPc' = "register"
  /\ UNCHANGED << cliPayload, cliAttempt, cliRegistered, cliReturned,
                  cliRaised, cliRest >>

\* Poller.unregister(socket): self._map.pop(socket), a KeyError for a
\* socket that is not registered
unregister(registered, socket) ==
  IF socket \in registered
    THEN [raised |-> FALSE, registered |-> registered \ {socket}]
    ELSE [raised |-> TRUE, registered |-> registered]

\* poller.unregister(sock) and poller.register(sock, zmq.POLLIN) on the
\* new socket, then the next turn of the loop, or the TimeoutError after
\* the last
CliRegister ==
  LET un == unregister(cliRegistered, cliSock) IN
  /\ cliPc = "register"
  /\ IF un.raised
       THEN /\ cliRaised' = "KeyError"
            /\ cliPc' = "raised"
            /\ UNCHANGED << cliAttempt, cliRegistered >>
       ELSE /\ cliRegistered' = un.registered \cup {cliSock}
            /\ IF cliAttempt < REQ_RETRIES
                 THEN /\ cliAttempt' = cliAttempt + 1
                      /\ cliPc' = "send"
                      /\ UNCHANGED cliRaised
                 ELSE /\ cliRaised' = "TimeoutError"
                      /\ cliPc' = "raised"
                      /\ UNCHANGED cliAttempt
  /\ UNCHANGED << cliPayload, cliTimeouts, cliSock, cliSockets, cliOpen,
                  cliReturned, cliRest >>

NextCli ==
  \/ \E payload \in CliPayloads : CliCall(payload)
  \/ CliSend
  \/ \E answer \in CliAnswers : CliPollReply(answer)
  \/ CliPollTimeout
  \/ CliRegister

SpecCli == InitAct /\ [][NextCli]_vars

(***************************************************************************)
(* Properties of the actuator                                              *)
(***************************************************************************)

\* C1: after any sequence of commands handled by the actuator, at most one
\* motion worker thread is alive at any time.
C1_AtMostOneWorkerAlive == Cardinality({t \in Tids : Alive(t)}) <= 1

\* a worker runs after the worker of the job before it was cancelled alive
C1_Witness ==
  \E o \in Tids, n \in Tids :
    o < n /\ o \in preempted /\ Alive(n) /\ workers[n].pc = "sleeping"

\* C2: when a command is accepted while a job is running, the running job
\* is cancelled and the stop pattern is on the pins before the new job
\* makes its first pin write, and the old job writes no pin after the
\* first pin write of the new job.
C2_PreemptBeforeNewJob ==
  /\ [](\A n \in Tids :
          workers[n].pc \notin {"none", "new"} =>
            /\ \A o \in Tids : o < n => Cancelled(o)
            /\ n \notin wrote => pins = StopBits)
  /\ [][\A o \in Tids, n \in Tids :
          (o < n /\ n \in wrote /\ lastWrite' # lastWrite)
            => lastWrite'.by # o]_vars

\* the new job has asserted a motor pattern after a job that had written
\* the pins was cancelled alive
C2_Witness ==
  \E o \in Tids, n \in Tids :
    /\ o < n /\ o \in preempted /\ o \in wrote
    /\ n \in wrote /\ lastWrite.by = n /\ pins # StopBits

\* C3: whatever the motion job was doing, once a stop command has been
\* handled the pins are at the stop pattern and the job handle is cleared,
\* and no other pattern is asserted until another command is accepted.
C3_StopAlwaysStops ==
  stopped =>
    /\ pins = StopBits
    /\ motion_thread = NoThread
    /\ \A t \in Tids : ~Alive(t)

\* a stop that came while a worker was running a token has been handled
C3_Witness ==
  stopped /\ rpiPc = "recv" /\ stopPrior = "token" /\ preempted # {}

\* C5: a second stop in a row leaves what is observable (pins, job handle,
\* live workers, cancel signal) as the first stop left it.
C5_StopIdempotent ==
  Len(stopObs) = 2 =>
    /\ stopObs[2] = stopObs[1]
    /\ stopObs[2] = << StopBits, NoThread, {}, FALSE >>

\* two stops in a row have been handled, the first one preempting a job
C5_Witness ==
  Len(stopObs) = 2 /\ rpiPc = "recv" /\ stopPrior = "idle" /\ preempted # {}


(***************************************************************************)
(* Properties of the aggregator node and of the command path               *)
(***************************************************************************)

\* C4: a stop intent is accepted by the aggregator in every state of its
\* statistics and history, and the reply to it, from the command server and
\* from the actuator, never has status error.
C4_StopNeverAnError ==
  /\ \A source \in Sources, text \in {"stop", " STOP\n"} :
       LET res == process_command(agg, PyStr(text), source, HIGH) IN
         res.success /\ Lower(res.processed) = "stop"
  /\ (/\ srvPc = "reply"
      /\ srvCur.payload.t = "str"
      /\ Lower(Strip(srvCur.payload.v)) = "stop")
       => srvCur.reply.status = "ok"
  /\ (rpiPc = "reply" /\ Lower(Strip(rpiRes.payload)) = "stop")
       => rpiRes.reply.status = "ok"

\* the producer holds the reply to a stop that came after a rejected
\* command, and the actuator has handled that stop
C4_Witness ==
  /\ prodReply.status = "ok"
  /\ prodReply.forwarded
  /\ Lower(prodReply.cmd) = "stop"
  /\ agg.errors > 0
  /\ Len(agg.command_history) > 0
  /\ stopped
  /\ rpiReply.status = "ok"

\* C6: every request received by the command server and by the request loop
\* of the actuator is answered with exactly one reply, and no reply is sent
\* without a request before it, whatever the payload.
C6_ExactlyOneReply ==
  /\ srvReplyN <= srvRecvN
  /\ srvRecvN <= srvReplyN + 1
  /\ srvPc = "poll" => srvReplyN = srvRecvN
  /\ rpiReplyN <= rpiRecvN
  /\ rpiRecvN <= rpiReplyN + 1
  /\ rpiPc = "recv" => rpiReplyN = rpiRecvN

\* the thread of the command server: every step of command_server_loop
CommandServerStep ==
  SrvRecv \/ SrvSend \/ SrvSendOut \/ SrvRecvReply \/ SrvReply

\* C7: if the actuator never replies to a forwarded command, the forward
\* still completes, so the thread of the command server is never left
\* without a step to take while it waits for the actuator.
C7_ForwardNeverBlocks ==
  (srvPc = "recv" /\ ~rpiUp) => ENABLED CommandServerStep

\* C8: a forward that failed is reported to the producer with status error
\* and forwarded false, never as status ok and forwarded true.
C8_FailedForwardReported ==
  (srvPc = "reply" /\ srvCur.failed) =>
    /\ srvCur.reply.status = "error"
    /\ ~srvCur.reply.forwarded

C10_LastAcceptedWins ==
  (/\ srvPc = "poll"
   /\ conPc = "input"
   /\ reqState = "idle"
   /\ wireReq = << >>
   /\ wireRep = << >>
   /\ rpiPc = "recv"
   /\ ~anyFwdFailed
   /\ rpiRecvN = Len(agg.command_history)
   /\ agg.last_command # None)
    => handle_payload(rpiLast).reply = handle_payload(agg.last_command).reply


\* C11: the request socket to the actuator, shared by the command server
\* thread and the console thread, stays in lockstep under any interleaving:
\* no request goes out before the reply to the one before it has been
\* received, and only the thread that sent a request waits for its reply.
C11_SocketLockstep ==
  /\ Len(wireReq) + (IF rpiPc # "recv" THEN 1 ELSE 0) + Len(wireRep) <= 1
  /\ ~(srvPc \in {"sending", "recv"} /\ conPc \in {"sending", "recv"})


\* C12: every command the client node sends to the actuator has first been
\* accepted by process_command, so it is in the history when it is sent, and
\* no more requests have gone out than intents were accepted.
C12_SingleEntryPoint ==
  /\ conPc \in {"send", "sending", "recv"} =>
       \E i \in 1..Len(agg.command_history) :
         /\ agg.command_history[i].processed = conCur
         /\ agg.command_history[i].source = MANUAL
  /\ srvPc \in {"send", "sending", "recv"} =>
       \E i \in 1..Len(agg.command_history) :
         /\ agg.command_history[i].processed = srvCur.processed
         /\ agg.command_history[i].source = JETSON
  /\ Len(wireReq) + rpiRecvN <= Len(agg.command_history)


(***************************************************************************)
(* Properties of the aggregator                                            *)
(***************************************************************************)

\* C13: each call of process_command increments exactly one of errors (when
\* the intent is rejected) and by_source[source] (when it is accepted).
C13_ExactlyOneCounter ==
  lastCall.op = "process" =>
    LET bySource == agg.by_source[lastCall.source]
                      - lastCall.before.by_source[lastCall.source]
        errors   == agg.errors - lastCall.before.errors
    IN  IF lastCall.success THEN bySource = 1 /\ errors = 0
                            ELSE bySource = 0 /\ errors = 1

\* C13, as the code has it: each call of process_command increments
\* total_commands and by_source[source] by one, accepted or not, leaves the
\* count of every other source alone, and increments errors by one exactly
\* when the intent is rejected.
C13_CountersPerCall ==
  lastCall.op = "process" =>
    /\ agg.total_commands = lastCall.before.total_commands + 1
    /\ \A source \in Sources :
         agg.by_source[source] =
           lastCall.before.by_source[source]
             + (IF source = lastCall.source THEN 1 ELSE 0)
    /\ agg.errors =
         lastCall.before.errors + (IF lastCall.success THEN 0 ELSE 1)

\* a value that is no text was rejected after an intent of the same source
\* had been accepted
C13_Witness ==
  /\ lastCall.op = "process"
  /\ ~lastCall.success
  /\ lastCall.command.t = "int"
  /\ lastCall.before.by_source[lastCall.source] > 0
  /\ lastCall.before.errors = 0


\* C14: for every rejected intent (a head that is not allowed, an empty
\* text, a text of white space, an exception during validation)
\* process_command increments errors by exactly one and leaves the history
\* and last_command as they were.
C14_RejectionLeavesHistory ==
  (lastCall.op = "process" /\ ~lastCall.success) =>
    /\ agg.errors = lastCall.before.errors + 1
    /\ agg.command_history = lastCall.before.command_history
    /\ agg.last_command = lastCall.before.last_command

\* a text of white space was rejected by an aggregator that holds history
C14_Witness ==
  /\ lastCall.op = "process"
  /\ ~lastCall.success
  /\ lastCall.command = PyStr("  ")
  /\ Len(agg.command_history) > 0
  /\ agg.last_command # None

\* C15: right after process_command has accepted an intent the newest
\* history entry records it (processed, source, priority and raw as
\* returned and as given), and k intents accepted since the history was
\* cleared, k not above the capacity, are the k entries of the history in
\* the order of acceptance.
C15_HistoryRecordsAccepted ==
  /\ (lastCall.op = "process" /\ lastCall.success) =>
       /\ Len(agg.command_history) > 0
       /\ agg.command_history[Len(agg.command_history)] =
            [raw |-> lastCall.command, processed |-> lastCall.processed,
             source |-> lastCall.source, priority |-> lastCall.priority]
  /\ Len(acceptedLog) <= agg.maxlen => agg.command_history = acceptedLog

\* three intents were accepted, none rejected, and the history was cleared
\* after the first: the two accepted since are the history
C15_Witness ==
  /\ lastCall.op = "process"
  /\ lastCall.success
  /\ agg.total_commands = 3
  /\ agg.errors = 0
  /\ agg.maxlen = 2
  /\ Len(acceptedLog) = 2
  /\ acceptedLog[1] # acceptedLog[2]

\* C16: the history never holds more than capacity entries, and after more
\* than capacity accepted intents it holds exactly the capacity most
\* recently accepted ones in the order of acceptance.
C16_HistoryBounded ==
  LET n == Len(acceptedLog)
      k == IF n > agg.maxlen THEN agg.maxlen ELSE n
  IN  /\ Len(agg.command_history) <= agg.maxlen
      /\ agg.command_history = SubSeq(acceptedLog, n - k + 1, n)

\* three different intents were accepted by an aggregator of capacity two
C16_Witness ==
  /\ agg.maxlen = 2
  /\ Len(acceptedLog) = 3
  /\ Len(agg.command_history) = 2
  /\ acceptedLog[1] # acceptedLog[2]
  /\ acceptedLog[2] # acceptedLog[3]
  /\ acceptedLog[1] # acceptedLog[3]


\* C17: process_command accepts a text if and only if, once stripped and
\* with its first token in lower case, it begins with the prefix seq
\* followed by a space, or its first field is an allowed command, or its
\* first field is of the colon form with an allowed command before the
\* colon; an empty text and a text of white space are rejected.
C17_AcceptedExactly ==
  (lastCall.op = "process" /\ lastCall.command.t = "str") =>
    LET normalized == Strip(lastCall.command.v)
        parts      == SplitWs(normalized)
        head       == Lower(parts[1])
        lowered    == head \o DropChars(normalized, Len(head))
    IN  lastCall.success <=>
          /\ Len(parts) > 0
          /\ \/ StartsWith(lowered, "seq ")
             \/ head \in allowed_commands
             \/ /\ Contains(head, ":")
                /\ SplitOn(head, ":")[1] \in allowed_commands

\* C18: the normalized command process_command returns for an accepted
\* text is the text stripped, with its first token in lower case and the
\* rest as it was.
C18_NormalizedLowersHead ==
  (lastCall.op = "process" /\ lastCall.success) =>
    LET normalized == Strip(lastCall.command.v)
        head       == Lower(SplitWs(normalized)[1])
    IN  lastCall.processed = head \o DropChars(normalized, Len(head))

\* C19: the colon form k:d and the space form k d of an allowed command
\* are both accepted and give the same normalized command, in the history
\* as in what is returned.
C19_ColonFormEqualsSpaceForm ==
  (/\ Len(acceptedLog) = 2
   /\ Contains(acceptedLog[1].raw.v, ":")
   /\ LET fields == SplitOn(acceptedLog[1].raw.v, ":")
      IN  acceptedLog[2].raw.v =
            fields[1] \o " "
              \o DropChars(acceptedLog[1].raw.v, Len(fields[1]) + 1))
    => agg.command_history[1].processed = agg.command_history[2].processed

\* C20: a text whose head is an allowed command and whose duration field,
\* after a space or after a colon, is no non-negative number is rejected:
\* errors is incremented and nothing is added to the history.
C20_MalformedDurationRejected ==
  (lastCall.op = "process" /\ lastCall.command.t = "str") =>
    LET parts    == SplitWs(Strip(lastCall.command.v))
        fields   == SplitOn(Lower(parts[1]), ":")
        duration == IF Len(fields) > 1 THEN fields[2]
                    ELSE IF Len(parts) > 1 THEN parts[2]
                    ELSE "0"
    IN  (/\ Len(parts) > 0
         /\ fields[1] \in allowed_commands
         /\ ParseSeconds(duration) < 0)
          => /\ ~lastCall.success
             /\ agg.errors = lastCall.before.errors + 1
             /\ agg.command_history = lastCall.before.command_history


\* C21: the priority is advisory.  The call of process_command just made
\* and the same call with any other priority (low, normal, high), on the
\* same aggregator with the same text and source, give the same verdict,
\* the same normalized command (the one the caller forwards) and the same
\* message, and leave aggregators that differ in nothing but the priority
\* field of the history entry the call added.
C21_PriorityAdvisory ==
  lastCall.op = "process" =>
    \A priority \in Priorities :
      LET other == process_command(lastCall.before, lastCall.command,
                                   lastCall.source, priority)
          mine  == agg.command_history
          its   == other.agg.command_history
      IN  /\ other.success = lastCall.success
          /\ other.processed = lastCall.processed
          /\ other.msg = lastCall.msg
          /\ other.agg.total_commands = agg.total_commands
          /\ other.agg.by_source = agg.by_source
          /\ other.agg.errors = agg.errors
          /\ other.agg.last_command = agg.last_command
          /\ Len(its) = Len(mine)
          /\ \A i \in 1..Len(mine) :
               /\ [its[i] EXCEPT !.priority = mine[i].priority] = mine[i]
               /\ i < Len(mine) => its[i] = mine[i]
          /\ lastCall.success =>
               /\ mine[Len(mine)].priority = lastCall.priority
               /\ its[Len(its)].priority = priority

\* an accepted call of low priority, in the history with that priority,
\* and a rejected one of high priority have been made
C21_Witness ==
  /\ lastCall.op = "process"
  /\ lastCall.priority = HIGH
  /\ ~lastCall.success
  /\ \E i \in 1..Len(agg.command_history) :
       agg.command_history[i].priority = LOW


\* C22: what get_stats and get_recent_history return, while other threads
\* call process_command, clear_history and the two readers, is the
\* aggregator as it was between two whole operations; no statistics
\* returned count a command in total_commands that is neither in errors
\* nor among the accepted ones.
C22_SnapshotsConsistent ==
  \A t \in LockThreads :
    callers[t].pc = "idle" =>
      /\ callers[t].op = "get_stats" =>
           /\ callers[t].stats = get_stats(callers[t].base)
           /\ callers[t].stats.total_commands =
                callers[t].stats.errors + callers[t].seen
      /\ callers[t].op = "get_recent_history" =>
           callers[t].history =
             get_recent_history(callers[t].base, RecentCount)

\* get_stats has returned the statistics of one accepted command while
\* the other thread, in a call of process_command, had counted its command
\* and not yet recorded it
C22_Witness ==
  \E t, u \in LockThreads :
    /\ callers[t].pc = "idle"
    /\ callers[t].op = "get_stats"
    /\ callers[t].stats.total_commands = 1
    /\ callers[t].stats.history_size = 1
    /\ callers[u].op = "process"
    /\ callers[u].pc = "validate"
    /\ agg.total_commands = 2


\* C23: after clear_history the statistics start fresh.  When
\* clear_history has just returned, no call of process_command has been
\* made since, and get_stats reports zero in by_source for every source,
\* whatever the aggregator had processed before.
C23_ClearStartsFresh ==
  lastCall.op = "clear" =>
    \A source \in Sources : get_stats(agg).by_source[source] = 0


\* C24: the actuator replies to a command that is no stop as soon as the
\* new job is scheduled.  When its reply is ready to be sent, a job whose
\* first token takes time has spent none of it: its worker is still at
\* that token with the whole duration left.  (The request loop then waits
\* in recv, where it takes the next request whatever the worker does.)
C24_ReplyWhenScheduled ==
  (rpiPc = "reply" /\ rpiRes.kind = "start") =>
    LET r      == workers[motion_thread]
        parsed == parse_command(r.toks[1])
        timed  == /\ Len(r.toks) > 0
                  /\ parsed.ok
                  /\ parsed.key = "SLEEP" \/ STATES(parsed.key) # << >>
                  /\ DurationOf(parsed.dur) > 0
    IN  timed =>
          /\ r.pc \in {"next", "apply", "sleep", "sleeping"}
          /\ r.idx = 1
          /\ r.pc \in {"sleep", "sleeping"} =>
               r.rem = DurationOf(parsed.dur)

\* the reply to a job has been sent and the next request received while
\* the worker of that job was in the sleep of its motor token, not
\* cancelled
C24_Witness ==
  \E t \in Tids :
    /\ rpiPc = "sm_lock"
    /\ rpiReply.mode \in {"single", "seq"}
    /\ rpiReplyN + 1 = rpiRecvN
    /\ motion_thread = t
    /\ workers[t].pc = "sleeping"
    /\ workers[t].phase = "motor"
    /\ ~Cancelled(t)
    /\ pins # StopBits


\* C25: a worker that has run a sequence to its end without being
\* cancelled has asserted the patterns of the tokens that parse to a pin
\* pattern, each once and in the order of the sequence; a token that does
\* not parse is skipped and the tokens after it still run; and the stop
\* pattern is on the pins at the end.
C25_SequenceInOrder ==
  \A w \in Tids :
    LET r == workers[w]
        BitsOf(token) ==
          LET parsed == parse_command(token)
          IN  IF parsed.ok /\ parsed.key # "SLEEP" THEN STATES(parsed.key)
              ELSE << >>
        expected[i \in 0..Len(r.toks)] ==
          IF i = 0 THEN << >>
          ELSE IF BitsOf(r.toks[i]) = << >> THEN expected[i - 1]
          ELSE Append(expected[i - 1], BitsOf(r.toks[i]))
    IN  (r.pc = "finally" /\ r.seq /\ ~Cancelled(w)) =>
          /\ r.applied = expected[Len(r.toks)]
          /\ pins = StopBits
          /\ lastWrite.by = w

\* a worker has run to its end, not cancelled, a sequence with a token
\* that does not parse between two motor tokens
C25_Witness ==
  \E w \in Tids :
    /\ workers[w].pc = "finally"
    /\ workers[w].seq
    /\ ~Cancelled(w)
    /\ Len(workers[w].toks) = 3
    /\ ~parse_command(workers[w].toks[2]).ok
    /\ Len(workers[w].applied) = 2


C27_SingleWriter ==
  [][lastWrite' # lastWrite =>
       \A t \in Tids : Alive(t) => t = lastWrite'.by]_vars

\* the stop path has written the pins after a worker that was cancelled
\* alive and had written them, and a later worker has written them too
C27_Witness ==
  \E o \in Tids, n \in Tids :
    /\ o < n
    /\ o \in preempted /\ o \in wrote
    /\ MainWriter \in wrote
    /\ n \in wrote
    /\ lastWrite.by = n
    /\ Alive(n)


\* C28: last_heartbeat_ts never decreases over the messages received; it
\* changes only as a message of type heartbeat is handled, and a message
\* of another type, a message with no type and an error of the receive
\* leave it as it was.
C28_HeartbeatMonotonic ==
  [][/\ last_heartbeat_ts' >= last_heartbeat_ts
     /\ last_heartbeat_ts' # last_heartbeat_ts =>
          /\ hbRecvN' = hbRecvN + 1
          /\ hbMsg'.json /\ hbMsg'.dict /\ hbMsg'.type = "heartbeat"
     /\ (/\ hbRecvN' = hbRecvN + 1
         /\ ~(hbMsg'.json /\ hbMsg'.dict /\ hbMsg'.type = "heartbeat")) =>
          last_heartbeat_ts' = last_heartbeat_ts]_vars

\* a heartbeat whose own timestamp is older than the one stored has been
\* handled after another heartbeat, later on the clock
C28_Witness ==
  /\ hbRecvN = 2
  /\ hbMsg.type = "heartbeat"
  /\ hbMsg.ts < last_heartbeat_ts
  /\ last_heartbeat_ts = hbNow
  /\ hbNow > 2


\* C29: the state of the heartbeat never gates a command.  Whatever age
\* of the heartbeat the controller loop has read (fresh, stale by more
\* than 3 s, or infinite when none has come), the command of the button
\* pressed has gone through process_command, with the verdict
\* process_command gives on that aggregator, and the accepted command has
\* been sent; the age decides the health warning and nothing else.
C29_HeartbeatNeverGates ==
  /\ ctlPc = "buttons" => (ctlWarned <=> ctlAge > StaleAfter)
  /\ ctlLast.button # None =>
       LET cmd == PyStr(ButtonCommand(ctlLast.button))
           res == process_command(lastCall.before, cmd, CONTROLLER, NORMAL)
       IN  /\ lastCall.op = "process"
           /\ lastCall.command = cmd
           /\ ctlLast.success = res.success
           /\ res.success
           /\ ctlLast.sent = res.processed
           /\ agg.total_commands = lastCall.before.total_commands + 1
           /\ agg.last_command = res.processed

\* the press of the stop button has been handled and its command sent
\* after the loop had read a heartbeat more than 3 s old and warned
C29_Witness ==
  /\ ctlLast.button = "X"
  /\ ctlLast.sent = "stop"
  /\ ctlWarned
  /\ ctlLast.age > StaleAfter
  /\ ctlLast.age < INF


\* C30: send_command of the request client makes up to 3 attempts.  After
\* each attempt that times out it goes on with a new socket, open and
\* registered with the poller, for the next attempt; it returns the reply
\* of the first attempt that is answered; and the only exception it ends
\* with is TimeoutError, after all 3 attempts have timed out.
C30_ThreeAttempts ==
  /\ cliAttempt <= REQ_RETRIES
  /\ cliPc \in {"send", "poll"} =>
       /\ cliAttempt = cliTimeouts + 1
       /\ cliSock \in cliOpen \cap cliRegistered
  /\ \A i \in 1..Len(cliReturned) : cliReturned[i].attempt <= REQ_RETRIES
  /\ cliPc = "raised" =>
       /\ cliRaised = "TimeoutError"
       /\ cliTimeouts = REQ_RETRIES


(***************************************************************************)
(* handle_payload over one command text in its three payload forms         *)
(***************************************************************************)

\* command texts handled in one run
MaxTexts == 2

\* command texts: single commands and sequences, with capital letters and
\* with whitespace around them
PayTexts ==
  { "forward 0.05", "seq forward 0.05; left 0.05", "SEQ lock",
    " seq right 0.05", "  seq forward 0.05", "stop", "seq stop", "seq",
    "lock ", "sequence", "seq  left 0.05", "dance" }

\* the JSON payload {"cmd": c}
JsonCmd(c) == "{\"cmd\": \"" \o c \o "\"}"

\* the JSON payload {"cmd": c, "mode": mode}
JsonCmdMode(c, mode) ==
  "{\"cmd\": \"" \o c \o "\", \"mode\": \"" \o mode \o "\"}"

\* what the worker makes of the job handle_payload starts: the parse of
\* the token of a single command, of each token of a sequence
JobTokens(res) ==
  IF res.is_sequence
    THEN LET toks == split_sequence(res.cmd)
         IN  [i \in 1..Len(toks) |-> parse_command(toks[i])]
    ELSE << parse_command(res.cmd) >>

\* what handle_payload does with a payload: nothing, a stop, or a job
Handling(res) ==
  [kind |-> res.kind, is_sequence |-> res.is_sequence,
   tokens |-> IF res.kind = "start" THEN JobTokens(res) ELSE << >>]

\* handle_payload is called with c, with {"cmd": c} and with
\* {"cmd": c, "mode": "auto"}
PayHandle(c) ==
  /\ Len(payLog) < MaxTexts
  /\ payLog' = Append(payLog, c)
  /\ payRes' = [text |-> handle_payload(c),
                json |-> handle_payload(JsonCmd(c)),
                auto |-> handle_payload(JsonCmdMode(c, "auto"))]
  /\ UNCHANGED << baseVars, slpVars, recent, padVars, sglVars >>

NextPay == \E c \in PayTexts : PayHandle(c)

SpecPay == InitAct /\ [][NextPay]_vars


\* C31: for every command text c the actuator handles the plain text c,
\* the JSON payload {"cmd": c} and the JSON payload
\* {"cmd": c, "mode": "auto"} identically (the same stop, or the same job
\* of the same tokens); the job is a sequence exactly when c begins with
\* the prefix "seq ", and the prefix is removed before the tokens are
\* parsed, otherwise it is a single command.
C31_PayloadFormsAgree ==
  payLog # << >> =>
    LET c        == payLog[Len(payLog)]
        prefixed == StartsWith(Lower(Strip(c)), "seq ")
    IN  /\ Handling(payRes.json) = Handling(payRes.text)
        /\ Handling(payRes.auto) = Handling(payRes.text)
        /\ \A f \in {"text", "json", "auto"} :
             payRes[f].kind = "start" =>
               /\ payRes[f].is_sequence <=> prefixed
               /\ payRes[f].cmd =
                    IF prefixed
                      THEN Strip(DropChars(LStrip(c), 4))
                      ELSE payRes[f].cmd


(***************************************************************************)
(* The actuator with sequences that hold a stop token                      *)
(***************************************************************************)

\* the payloads of this run: sequences with a stop token in the middle and
\* at the end, a single command and the stop command
SeqPayloads ==
  { "seq left 0.05; stop; right 0.05", "seq forward 0.05; stop", "lock",
    "stop" }

RpiRecvSeq == \E payload \in SeqPayloads : RpiRecvAny(payload)

NextSeq == RpiRecvSeq \/ RpiSendAny \/ Motion

SpecSeq == InitAct /\ [][NextSeq]_vars


\* C32: a stop token inside a sequence asserts the stop pattern and ends
\* the worker: no token that follows it in the sequence is executed, so
\* among the patterns the tokens of a worker have asserted nothing follows
\* the stop pattern, and the worker never enters a token behind a stop
\* token.
C32_StopTokenEndsWorker ==
  \A w \in Tids :
    LET r == workers[w] IN
    /\ \A i \in 1..Len(r.applied) :
         r.applied[i] = StopBits => i = Len(r.applied)
    /\ (r.seq /\ r.pc \in {"apply", "sleep", "sleeping", "after"}
          /\ r.phase # "pause") =>
         \A i \in 1..(r.idx - 1) : parse_command(r.toks[i]).key # "STOP"


(***************************************************************************)
(* sleep_interruptible alone, called with any number of seconds            *)
(***************************************************************************)

\* calls of sleep_interruptible in one run
MaxSleeps == 2

\* the seconds it is called with, in 1/100 s: negative, zero, less than a
\* step, a step, more than a step and more than two steps
SleepDurations == {0 - 5, 0, 3, 5, 8, 12}

slpRest == << baseVars, payVars, recent, padVars, sglVars >>

\* the thread is in sleep_interruptible
Sleeping == slp.pc \in {"sleep", "sleeping"}

\* sleep_interruptible(seconds, cancel_event) is called, as after a
\* sequence: remaining = max(0.0, seconds); the signal may be set already
SlpCall(seconds, set) ==
  /\ ~Sleeping
  /\ slpCalls < MaxSleeps
  /\ slpCalls' = slpCalls + 1
  /\ slp' = [NoWorker EXCEPT !.pc = "sleep", !.phase = "pause",
                             !.rem = IF seconds > 0 THEN seconds ELSE 0]
  /\ slpD' = seconds
  /\ slpSlept' = 0
  /\ slpCancel' = set
  /\ slpSaw' = FALSE
  /\ UNCHANGED slpRest

\* the head of the loop: while remaining > 0, if cancel_event.is_set()
SlpHead ==
  /\ slp.pc = "sleep"
  /\ slp' = SleepLoop(slp, slpCancel)
  /\ slpSaw' = (slpSaw \/ (slp.rem > 0 /\ slpCancel))
  /\ UNCHANGED << slpD, slpSlept, slpCancel, slpCalls, slpRest >>

\* time.sleep(dt) returns; remaining -= dt
SlpWake ==
  /\ slp.pc = "sleeping"
  /\ slp' = [slp EXCEPT !.pc = "sleep", !.rem = slp.rem - slp.dt, !.dt = 0]
  /\ slpSlept' = slpSlept + slp.dt
  /\ UNCHANGED << slpD, slpCancel, slpSaw, slpCalls, slpRest >>

\* another thread sets the cancel signal
SlpSetCancel ==
  /\ Sleeping
  /\ ~slpCancel
  /\ slpCancel' = TRUE
  /\ UNCHANGED << slp, slpD, slpSlept, slpSaw, slpCalls, slpRest >>

NextSleep ==
  \/ \E seconds \in SleepDurations, set \in BOOLEAN : SlpCall(seconds, set)
  \/ SlpHead
  \/ SlpWake
  \/ SlpSetCancel

\* the thread in sleep_interruptible runs on: the loop head is evaluated
\* and time.sleep returns
SpecSleep ==
  InitAct /\ [][NextSleep]_vars /\ WF_vars(SlpHead) /\ WF_vars(SlpWake)


\* C33: sleep_interruptible(D, cancel) ends for every D, at once and
\* without sleeping when D is zero or negative; it sleeps in steps of at
\* most 50 ms and never longer than D in total; it looks at the cancel
\* signal before every step and sleeps no further step once it has seen
\* the signal set.
C33_SleepInterruptible ==
  /\ [](/\ slp.pc = "sleeping" =>
             /\ slp.dt > 0
             /\ slp.dt <= SleepStepCs
             /\ slpSlept + slp.dt <= slpD
        /\ slpSlept <= (IF slpD > 0 THEN slpD ELSE 0)
        /\ slpD <= 0 => slp.pc # "sleeping"
        /\ slpSaw => ~Sleeping)
  /\ [][/\ (slp.pc = "sleep" /\ slp'.pc = "sleeping") => ~slpCancel
        /\ (slp.pc = "sleep" /\ slp' # slp /\ slp.rem > 0 /\ slpCancel) =>
             (~Sleeping' /\ slpSlept' = slpSlept)
        /\ (slp.pc = "sleep" /\ slp' # slp /\ slpD <= 0) =>
             (~Sleeping' /\ slpSlept' = 0)]_vars
  /\ (Sleeping ~> ~Sleeping)

\* a call with more than two steps to sleep has slept two whole steps and
\* has returned at the third look at the signal, set meanwhile, with the
\* rest not slept
C33_Witness ==
  /\ slpD = 12
  /\ slpSlept = 2 * SleepStepCs
  /\ slpSaw
  /\ slp.pc = "finally"


\* a worker is in the pause that follows a sequence
Pausing(w) == Alive(w) /\ workers[w].phase = "pause"

\* C34: after the last token of a sequence that was not interrupted the
\* worker asserts the stop pattern and begins the pause, with the whole
\* pause to wait; the pins are at the stop pattern as long as a worker is
\* in the pause; and a command that arrives during the pause is accepted
\* and preempts the pausing worker like any running job: it goes to
\* stop_motion, the signal of the pausing worker is set while main waits
\* for it, the worker begins no further step of the pause, it has ended
\* when the new job is made, and the reply says ok.
C34_PauseHeldAndPreempted ==
  /\ [](\A w \in Tids :
          Pausing(w) =>
            /\ pins = StopBits
            /\ workers[w].seq
            /\ workers[w].idx > Len(workers[w].toks)
            /\ workers[w].rem <= PauseAfterSeqCs)
  /\ [][\A w \in Tids :
          (~Pausing(w) /\ Pausing(w)') =>
            /\ ~Cancelled(w)
            /\ lastWrite' # lastWrite
            /\ lastWrite'.by = w
            /\ pins' = StopBits
            /\ workers'[w].rem = PauseAfterSeqCs]_vars
  /\ [][(rpiPc = "recv" /\ rpiPc' # "recv" /\ PriorState = "pause"
           /\ rpiRes'.kind \in {"start", "stop"}) =>
          /\ rpiPc' = "sm_lock"
          /\ workers' = workers]_vars
  /\ [](rpiPc = "sm_join" => Cancelled(smT))
  /\ [][\A w \in Tids :
          (Pausing(w) /\ Cancelled(w) /\ workers'[w] # workers[w]) =>
            \/ workers[w].pc = "sleeping"
            \/ workers'[w].pc \in {"finally", "dead"}]_vars
  /\ [](rpiPc \in {"st_create", "st_start"} =>
          \A t \in Tids : ~Alive(t))
  /\ []((rpiPc = "reply" /\ rpiRes.kind \in {"start", "stop"}) =>
          rpiRes.reply.ok)

\* a job has arrived while the worker of a finished sequence was in its
\* pause: main waits in the join for that worker, which is cancelled
\* with a part of its pause left, and the pins are at the stop pattern
C34_Witness ==
  /\ rpiPc = "sm_join"
  /\ rpiRes.kind = "start"
  /\ Pausing(smT)
  /\ Cancelled(smT)
  /\ workers[smT].rem > 0
  /\ workers[smT].rem < PauseAfterSeqCs
  /\ pins = StopBits


\* C35: once the cancel signal of a motion job has been set, the worker of
\* that job never asserts a pattern other than the stop pattern again:
\* every write of the pins it performs while its signal is set is a write
\* of the stop pattern.
C35_CancelledWritesOnlyStop ==
  [][\A w \in Tids :
       (Cancelled(w) /\ lastWrite' # lastWrite /\ lastWrite'.by = w) =>
         pins' = StopBits]_vars


\* C36: every new motion worker is started with a cancel signal that is
\* clear and that belongs to it alone.  No two threads hold the same
\* signal; a thread is made and started with a clear signal; and when a
\* signal is set, the only thread it cancels is the one that was the
\* motion job then, never the job that replaces it.
C36_OwnClearSignal ==
  /\ [](\A t, u \in Tids :
          (t # u /\ workers[t].pc # "none" /\ workers[u].pc # "none") =>
            workers[t].ev # workers[u].ev)
  /\ [](\A t \in Tids : workers[t].pc = "new" => ~Cancelled(t))
  /\ [][\A t \in Tids :
          (workers[t].pc \in {"none", "new"} /\ workers'[t].pc = "next") =>
            /\ workers[t].pc = "new"
            /\ ~Cancelled(t)'
            /\ motion_thread' = t]_vars
  /\ [][evSet' # evSet =>
          \A t \in Tids :
            (workers[t].pc # "none" /\ Cancelled(t)') =>
              (Cancelled(t) \/ t = motion_thread)]_vars
  /\ [](\A t \in Tids :
          (Alive(t) /\ Cancelled(t)) => rpiPc \in {"sm_join", "sm_stop",
                                                    "sm_clear"}
                                          \/ motion_thread # t)

\* the job that has replaced a preempted job runs with its signal clear
\* while the signal of the preempted job, whose worker has ended, is set
C36_Witness ==
  \E t, u \in Tids :
    /\ t \in preempted
    /\ workers[t].pc = "dead"
    /\ Cancelled(t)
    /\ motion_thread = u
    /\ workers[u].pc = "sleeping"
    /\ ~Cancelled(u)
    /\ pins # StopBits


\* C37: in every state of the aggregator that a caller can observe (no
\* thread is inside a method), and in every snapshot get_stats has
\* returned, total_commands equals the sum of the by_source counts, so
\* every process_command call is counted once under its source, and
\* errors never exceeds total_commands.
C37_CountsAddUp ==
  LET Sum(by_source) ==
        by_source[JETSON] + by_source[MANUAL] + by_source[CONTROLLER]
      Sound(stats) ==
        /\ stats.total_commands = Sum(stats.by_source)
        /\ stats.errors <= stats.total_commands
  IN  /\ LockFree => Sound(agg)
      /\ Sound(committed)
      /\ \A t \in LockThreads :
           (callers[t].op = "get_stats" /\ callers[t].pc = "idle") =>
             Sound(callers[t].stats)

\* two calls from two sources, one of them rejected, have been counted,
\* and a thread has read the counters after the second
C37_Witness ==
  /\ LockFree
  /\ agg.total_commands = 2
  /\ agg.errors = 1
  /\ agg.by_source[JETSON] = 1
  /\ agg.by_source[MANUAL] = 1
  /\ \E t \in LockThreads :
       /\ callers[t].op = "get_stats"
       /\ callers[t].pc = "idle"
       /\ callers[t].stats.total_commands = 2
       /\ callers[t].stats.errors = 1


(***************************************************************************)
(* get_recent_history over histories and counts of every size              *)
(***************************************************************************)

\* calls of process_command in one run
MaxEntries == 3

\* the largest count asked for
MaxCount == 4

\* the commands submitted: accepted ones and a rejected one
HistCommands == { PyStr("stop"), PyStr("forward 2"), PyStr("dance") }

HistSubmit ==
  /\ agg.total_commands < MaxEntries
  /\ \E command \in HistCommands : Submit(command, MANUAL, NORMAL)

\* a call of get_recent_history(count)
HistRecent(count) ==
  /\ recent' = [called |-> TRUE, count |-> count,
                of |-> agg.command_history,
                list |-> get_recent_history(agg, count)]
  /\ UNCHANGED << baseVars, payVars, slpVars, padVars, sglVars >>

NextHist == HistSubmit \/ \E count \in 0..MaxCount : HistRecent(count)

SpecHist == InitAct /\ [][NextHist]_vars


\* C38: for every count n >= 0, get_recent_history(n) returns
\* min(n, |history|) entries: the n most recently accepted ones, oldest
\* first, as they stand at the end of the history.
C38_RecentHistory ==
  recent.called =>
    LET h == recent.of
        k == IF recent.count < Len(h) THEN recent.count ELSE Len(h)
    IN  /\ Len(recent.list) = k
        /\ recent.list = SubSeq(h, Len(h) - k + 1, Len(h))


(***************************************************************************)
(* The controller loop with its D-pad, its stop button and its rate limit: *)
(* src/client/controller_mode.py                                           *)
(***************************************************************************)

\* SEND_COOLDOWN, 0.05 s
SEND_COOLDOWN == 5

\* REPEAT_HOLD_INTERVAL, 0.15 s
REPEAT_HOLD_INTERVAL == 15

\* turns of the loop in one run
MaxTurns == 4

\* the time from one turn of the loop to the next, in 1/100 s: the
\* time.sleep(0.02) at its end, or longer when a command was sent
TurnGaps == {2, 6}

\* the D-pad positions of a run: at rest and up
Hats == { Neutral, << 0, 1 >> }

\* map_hat_to_cmd with DUR_FORWARD, DUR_BACKWARD and DUR_TURN at their
\* defaults
map_hat_to_cmd(hat) ==
  CASE hat = << 0, 1 >>     -> "forward 0.5"
    [] hat = << 0, 0 - 1 >> -> "backward 0.5"
    [] hat = << 0 - 1, 0 >> -> "left 0.3"
    [] hat = << 1, 0 >>     -> "right 0.3"
    [] hat = << 0, 0 >>     -> "stop"
    [] OTHER                -> None

\* the command the D-pad part of the loop comes to in a turn: that of the
\* new position when the position has changed, that of a position held off
\* neutral for the repeat interval, else none
HatCommand(hat, now) ==
  IF hat # last_hat THEN map_hat_to_cmd(hat)
  ELSE IF hat # Neutral /\ now - last_hat_send_time >= REPEAT_HOLD_INTERVAL
    THEN map_hat_to_cmd(hat)
  ELSE None

\* the aggregator after the command of an intent has gone through
\* process_command, or as it was when the rate limit has dropped it
AfterIntent(a, cmd, priority, pass) ==
  IF pass THEN process_command(a, PyStr(cmd), CONTROLLER, priority).agg
  ELSE a

\* one turn of the loop with the D-pad at hat and the X button at x: the
\* D-pad part, then the button part, then the sleep. The clock the button
\* part reads anew (now_btn) is the clock of the turn: the two readings are
\* far less than the cooldown apart.
PadTurn(hat, x, gap) ==
  LET now      == padNow
      hatCmd   == HatCommand(hat, now)
      hatPass  == hatCmd # None /\ now - last_send_time >= SEND_COOLDOWN
      hatRes   == process_command(agg, PyStr(hatCmd), CONTROLLER, NORMAL)
      hatSent  == hatPass /\ hatRes.success /\ Truthy(PyStr(hatRes.processed))
      agg1     == AfterIntent(agg, hatCmd, NORMAL, hatPass)
      sent1    == IF hatSent THEN now ELSE last_send_time
      pressed  == x = 1 /\ last_buttons = 0
      btnPass  == pressed /\ ~(now - sent1 < SEND_COOLDOWN)
      btnRes   == process_command(agg1, PyStr("stop"), CONTROLLER, HIGH)
      btnSent  == btnPass /\ btnRes.success /\ Truthy(PyStr(btnRes.processed))
  IN  /\ padTurns < MaxTurns
      /\ padTurns' = padTurns + 1
      /\ last_hat' = hat
      /\ last_hat_send_time' = IF hatSent THEN now ELSE last_hat_send_time
      /\ last_send_time' = IF btnSent THEN now ELSE sent1
      /\ last_buttons' = x
      /\ padHat' = PadIntent(hatCmd, hatSent)
      /\ padBtn' = PadIntent(IF pressed THEN "stop" ELSE None, btnSent)
      /\ agg' = AfterIntent(agg1, "stop", HIGH, btnPass)
      /\ lastCall' =
           IF btnPass THEN CallOf(agg1, PyStr("stop"), CONTROLLER, HIGH, btnRes)
           ELSE IF hatPass
             THEN CallOf(agg, PyStr(hatCmd), CONTROLLER, NORMAL, hatRes)
           ELSE lastCall
      /\ acceptedLog' =
           LET log1 == IF hatPass
                         THEN LogAfter(acceptedLog, PyStr(hatCmd), CONTROLLER,
                                       NORMAL, hatRes)
                         ELSE acceptedLog
           IN  IF btnPass
                 THEN LogAfter(log1, PyStr("stop"), CONTROLLER, HIGH, btnRes)
                 ELSE log1
      /\ padNow' = now + gap
      /\ UNCHANGED << actVars, netVars, lockVars, hbVars, ctlVars, cliVars,
                      payVars, slpVars, recent, sglVars >>

NextPad ==
  \E hat \in Hats, x \in {0, 1}, gap \in TurnGaps : PadTurn(hat, x, gap)

SpecPad == InitAct /\ [][NextPad]_vars


\* C39: a stop intent of the controller, the D-pad coming back to neutral
\* or the X button being pressed, is always sent to the actuator: the rate
\* limit SEND_COOLDOWN never drops it, whatever was sent just before it.
C39_StopIntentSent ==
  /\ padHat.cmd = "stop" => padHat.sent
  /\ padBtn.cmd = "stop" => padBtn.sent


(***************************************************************************)
(* The aggregator of the process, made on first use:                       *)
(* get_aggregator of src/server/command_aggregator.py                      *)
(***************************************************************************)

\* calls of get_aggregator in one run
MaxGets == 5

\* _aggregator_instance = CommandAggregator(): the n-th instance made
InstanceMade(n) ==
  << "aggregator 1", "aggregator 2", "aggregator 3", "aggregator 4" >>[n]

\* thread t at statement pc of get_aggregator
SgAt(t, pc) == getters[t].pc = pc

\* thread t goes to statement pc
SgGoto(t, pc) == getters' = [getters EXCEPT ![t].pc = pc]

sglRest == << baseVars, payVars, slpVars, recent, padVars >>

\* thread t calls get_aggregator and makes the first test, without the
\* lock: with an instance there it goes straight to the return
SgCheck1(t) ==
  /\ SgAt(t, "idle")
  /\ getsStarted < MaxGets
  /\ getsStarted' = getsStarted + 1
  /\ getters' = [getters EXCEPT
       ![t] = [pc   |-> IF aggregator_instance = None THEN "acquire"
                        ELSE "return",
               ret  |-> None,
               late |-> FALSE]]
  /\ UNCHANGED << aggregator_instance, aggregator_lock, instancesMade, sglRest >>

\* with _aggregator_lock: thread t waits for the lock and takes it
SgAcquire(t) ==
  /\ SgAt(t, "acquire")
  /\ aggregator_lock = NoThread
  /\ aggregator_lock' = t
  /\ SgGoto(t, "check2")
  /\ UNCHANGED << aggregator_instance, instancesMade, getsStarted, sglRest >>

\* the second test, with the lock, without which two instances are made
SgCheck2_Unchecked(t) ==
  /\ SgAt(t, "check2")
  /\ aggregator_instance' = InstanceMade(instancesMade + 1)
  /\ instancesMade' = instancesMade + 1
  /\ getters' = [getters EXCEPT ![t].pc = "release"]
  /\ UNCHANGED << aggregator_lock, getsStarted, sglRest >>

\* the second test, with the lock: thread t makes the instance when there
\* is still none, and is late when another thread has made it meanwhile
SgCheck2(t) ==
  /\ SgAt(t, "check2")
  /\ IF aggregator_instance = None
       THEN /\ aggregator_instance' = InstanceMade(instancesMade + 1)
            /\ instancesMade' = instancesMade + 1
            /\ getters' = [getters EXCEPT ![t].pc = "release"]
       ELSE /\ getters' = [getters EXCEPT ![t].pc = "release",
                                          ![t].late = TRUE]
            /\ UNCHANGED << aggregator_instance, instancesMade >>
  /\ UNCHANGED << aggregator_lock, getsStarted, sglRest >>

\* the end of the with block: thread t gives the lock back
SgRelease(t) ==
  /\ SgAt(t, "release")
  /\ aggregator_lock' = NoThread
  /\ SgGoto(t, "return")
  /\ UNCHANGED << aggregator_instance, instancesMade, getsStarted, sglRest >>

\* return _aggregator_instance: the instance as it is now
SgReturn(t) ==
  /\ SgAt(t, "return")
  /\ getters' = [getters EXCEPT ![t].pc = "idle",
                                ![t].ret = aggregator_instance]
  /\ UNCHANGED << aggregator_instance, aggregator_lock, instancesMade,
                  getsStarted, sglRest >>

NextSgl ==
  \E t \in LockThreads :
    \/ SgCheck1(t)
    \/ SgAcquire(t)
    \/ SgCheck2(t)
    \/ SgRelease(t)
    \/ SgReturn(t)

SpecSgl == InitAct /\ [][NextSgl]_vars


\* C40: get_aggregator gives the same instance on every call, also when
\* the first calls run at the same time in several threads: at most one
\* instance is ever made, the instance once made is never replaced, and
\* every call returns it.
C40_OneAggregator ==
  /\ [](instancesMade <= 1)
  /\ [](\A t \in LockThreads :
          SgAt(t, "idle") /\ getters[t].ret # None
            => getters[t].ret = aggregator_instance)
  /\ [](\A t \in LockThreads : SgAt(t, "return") => aggregator_instance # None)
  /\ [][aggregator_instance # None
          => aggregator_instance' = aggregator_instance]_vars

\* two first calls at the same time: both threads found no instance at the
\* first test, one made it, the other came late to the second test, and
\* both have returned the one instance
C40_Witness ==
  /\ instancesMade = 1
  /\ \A t \in LockThreads :
       SgAt(t, "idle") /\ getters[t].ret = aggregator_instance
  /\ \E t \in LockThreads : getters[t].late

=============================================================================
